---- MODULE Spec2Model ----
(***************************************************************************)
(* A model of twitter-dl: the snapshot store (src/src/model.rs), the       *)
(* download task (src/src/download_task.rs) and the per-account sync       *)
(* (src/src/download/mod.rs).                                              *)
(*                                                                         *)
(* Option<T> is modelled as a sequence of length at most one: None is <<>> *)
(* and Some(x) is <<x>>.  Strings that the program builds or takes apart   *)
(* (URL paths, file names) are sequences of one-character strings.         *)
(***************************************************************************)
EXTENDS Integers, Sequences, FiniteSets, TLC

VARIABLES
    data_file,      \* the in-memory DataFile of the account being synced
    new_tweets,     \* the Vec<Tweet> handed to merge_tweets
    trail,          \* history: the DataFile before and after each merge_tweets call
    returned,       \* history: the value returned by each merge_tweets call
    args,           \* the DownloadArgs of the run
    twitter,        \* the remote side: the account's id and its timeline
    pc,             \* where download_account stands
    result,         \* what download_account returned: None while it runs
    since_id,       \* the cursor given to get_all_tweets_for_user
    saved,          \* the content of <user_dir>/tweets.json: None when there is no file
    files,          \* the media files of user_dir: file name -> content
    files0,         \* history: files when the downloads were enumerated
    downloads,      \* the Vec<DownloadTask> of the run
    next_task,      \* the position of stream::iter(downloads)
    in_progress,    \* the futures held by buffer_unordered (indices of downloads)
    task,           \* per download: how far download_impl has come, its scratch file
    delivered,      \* history: the (result, ctx) pairs the stream has yielded, in order
    counter,        \* the number of downloaded files
    batch,          \* the loop of `download` over the usernames, and its result
    world,          \* per username: the remote side and user_dir while it is not synced
    user_dir_exists \* the directory user_dir has been created

mvars == <<data_file, new_tweets, trail, returned>>
dvars == <<args, twitter, pc, result, since_id, saved, files, files0, downloads,
           next_task, in_progress, task, delivered, counter, batch, world,
           user_dir_exists>>
vars == <<mvars, dvars>>

----------------------------------------------------------------------------
(* Bounds of the model.                                                    *)

\* longest Vec<Tweet> handed to merge_tweets
MaxIncoming == 2

\* largest args.concurrency
MaxConcurrency == 2

\* the number of chunks a response body arrives in
BodyChunks == 2

\* the post ids and the media ids (unique within a post) that occur
PostIds == {1, 2}
MediaIds == {1, 2}

----------------------------------------------------------------------------
(* Option, strings.                                                        *)

None == <<>>
Some(x) == <<x>>
IsSome(o) == Len(o) = 1
IsNone(o) == Len(o) = 0
Unwrap(o) == o[1]

\* The decimal digits of a u64, as format!("{}") prints them.
RECURSIVE FormatU64(_)
FormatU64(n) ==
    LET d == <<"0", "1", "2", "3", "4", "5", "6", "7", "8", "9">>
    IN  IF n < 10 THEN <<d[n + 1]>> ELSE FormatU64(n \div 10) \o <<d[(n % 10) + 1]>>

\* str::rfind('.'): the (1-based) position of the last '.', 0 when there is none.
RECURSIVE RFindDot(_, _)
RFindDot(s, i) ==
    IF i = 0 THEN 0
    ELSE IF s[i] = "." THEN i ELSE RFindDot(s, i - 1)

----------------------------------------------------------------------------
(* model.rs                                                                *)

MODEL_VERSION == 1

\* Media::new
MediaNew(id, type, url) ==
    [id |-> id, type |-> type, file_name |-> None, url |-> url]

\* A mutant of CandidateFileName: the two ids are not separated
CandidateFileNameJoined(tweet_id, media_id, path) ==
    LET dot_idx == RFindDot(path, Len(path))
        ext == IF dot_idx = 0 THEN <<>> ELSE SubSeq(path, dot_idx + 1, Len(path))
    IN  FormatU64(tweet_id) \o FormatU64(media_id) \o <<".">> \o ext

\* The file name Media::is_download_candidate builds: "{tweet.id}_{media.id}.{ext}",
\* ext being what follows the last '.' of the URL path ("" when there is none).
CandidateFileName(tweet_id, media_id, path) ==
    LET dot_idx == RFindDot(path, Len(path))
        ext == IF dot_idx = 0 THEN <<>> ELSE SubSeq(path, dot_idx + 1, Len(path))
    IN  FormatU64(tweet_id) \o <<"_">> \o FormatU64(media_id) \o <<".">> \o ext

\* existing.media.iter().find(|m| m.id == media.id): the first index, 0 if none
RECURSIVE FindMedia(_, _, _)
FindMedia(media, id, i) ==
    IF i > Len(media) THEN 0
    ELSE IF media[i].id = id THEN i ELSE FindMedia(media, id, i + 1)

\* A mutant of CarryFileNames: the incoming media list replaces the stored one
\* as it is, no file name is carried forward.
CarryFileNamesDropped(existing, tweet) == tweet

\* merge_tweets, lines 146-150: every media of the incoming tweet that the
\* existing tweet also has takes the existing media's file_name.
CarryFileNames(existing, tweet) ==
    [tweet EXCEPT !.media =
        [k \in 1..Len(tweet.media) |->
            LET idx == FindMedia(existing.media, tweet.media[k].id, 1)
            IN  IF idx = 0 THEN tweet.media[k]
                ELSE [tweet.media[k] EXCEPT !.file_name = existing.media[idx].file_name]]]

\* existing.into_iter().map(|t| (t.id, t)).collect::<BTreeMap>(): a later
\* tweet with the same id replaces an earlier one.
RECURSIVE CollectMap(_, _, _)
CollectMap(tweets, i, map) ==
    IF i > Len(tweets) THEN map
    ELSE CollectMap(tweets, i + 1,
            [id \in (DOMAIN map) \cup {tweets[i].id} |->
                IF id = tweets[i].id THEN tweets[i] ELSE map[id]])

\* A mutant of MergeLoop: a tweet that is already in the map is kept as it is
RECURSIVE MergeLoopKeepFirst(_, _, _)
MergeLoopKeepFirst(incoming, i, r) ==
    IF i > Len(incoming) THEN r
    ELSE
        IF incoming[i].id \in DOMAIN r.map
        THEN MergeLoopKeepFirst(incoming, i + 1, r)
        ELSE MergeLoopKeepFirst(incoming, i + 1,
                [map |-> [id \in (DOMAIN r.map) \cup {incoming[i].id} |->
                            IF id = incoming[i].id THEN incoming[i] ELSE r.map[id]],
                 new |-> r.new + 1])

\* The for loop of merge_tweets, lines 143-155; r is [map, new].
RECURSIVE MergeLoop(_, _, _)
MergeLoop(incoming, i, r) ==
    IF i > Len(incoming) THEN r
    ELSE
        LET seen == incoming[i].id \in DOMAIN r.map
            tweet == IF seen THEN CarryFileNames(r.map[incoming[i].id], incoming[i])
                     ELSE incoming[i]
            map2 == [id \in (DOMAIN r.map) \cup {tweet.id} |->
                        IF id = tweet.id THEN tweet ELSE r.map[id]]
        IN  MergeLoop(incoming, i + 1,
                [map |-> map2, new |-> IF seen THEN r.new ELSE r.new + 1])

\* A mutant of IntoValues: the values in descending key order
RECURSIVE IntoValuesDescending(_)
IntoValuesDescending(map) ==
    IF DOMAIN map = {} THEN <<>>
    ELSE
        LET hi == CHOOSE k \in DOMAIN map : \A j \in DOMAIN map : j <= k
        IN  <<map[hi]>> \o IntoValuesDescending([k \in (DOMAIN map) \ {hi} |-> map[k]])

\* map.into_values().collect(): the values in ascending key order
RECURSIVE IntoValues(_)
IntoValues(map) ==
    IF DOMAIN map = {} THEN <<>>
    ELSE
        LET lo == CHOOSE k \in DOMAIN map : \A j \in DOMAIN map : k <= j
        IN  <<map[lo]>> \o IntoValues([k \in (DOMAIN map) \ {lo} |-> map[k]])

EmptyMap == [id \in {} |-> 0]

\* A mutant of MergeTweets: the version of the DataFile is left as it was
MergeTweetsKeepVersion(self, incoming) ==
    LET r == MergeLoop(incoming, 1, [map |-> CollectMap(self.tweets, 1, EmptyMap), new |-> 0])
    IN  [data_file |-> [user_id |-> self.user_id,
                        tweets |-> IntoValues(r.map),
                        version |-> self.version],
         new |-> r.new]

\* A mutant of MergeTweets: the new tweets are appended to the stored ones,
\* a tweet already stored is not replaced.
MergeTweetsAppending(self, incoming) ==
    [data_file |-> [user_id |-> self.user_id,
                    tweets |-> self.tweets \o incoming,
                    version |-> MODEL_VERSION],
     new |-> Len(incoming)]

\* DataFile::merge_tweets: the DataFile afterwards and the returned count
MergeTweets(self, incoming) ==
    LET r == MergeLoop(incoming, 1, [map |-> CollectMap(self.tweets, 1, EmptyMap), new |-> 0])
    IN  [data_file |-> [user_id |-> self.user_id,
                        tweets |-> IntoValues(r.map),
                        version |-> MODEL_VERSION],
         new |-> r.new]

\* DataFile::new
DataFileNew(user_id) == [user_id |-> user_id, tweets |-> <<>>, version |-> MODEL_VERSION]

\* A mutant of LatestTweetId: the first tweet is taken instead of the last
LatestTweetIdFirst(self) ==
    IF Len(self.tweets) = 0 THEN None ELSE Some(self.tweets[1].id)

\* DataFile::latest_tweet_id
LatestTweetId(self) ==
    IF Len(self.tweets) = 0 THEN None ELSE Some(self.tweets[Len(self.tweets)].id)

----------------------------------------------------------------------------
(* The snapshots and the fetched tweets the model draws its inputs from.   *)

\* the account whose snapshot is synced
Account == [username |-> "alice", user_id |-> 7]

\* URL paths: every media id has one remote location
PathOf(media_id) ==
    IF media_id = 1 THEN <<"/", "a", ".", "j", "p", "g">> ELSE <<"/", "v", ".", "m", "p", "4">>
TypeOf(media_id) == IF media_id = 1 THEN "photo" ELSE "video"

\* A media as the Twitter client converts it (file_name: None)
FetchedMedia(media_id) == MediaNew(media_id, TypeOf(media_id), Some(PathOf(media_id)))

\* A media a previous run has downloaded and bound
BoundMedia(tweet_id, media_id) ==
    [FetchedMedia(media_id) EXCEPT
        !.file_name = Some(CandidateFileName(tweet_id, media_id, PathOf(media_id)))]

SeqsUpTo(S, n) == UNION {[1..k -> S] : k \in 0..n}

\* lists of media ids, each id at most once (media ids are unique within a post)
MediaIdLists ==
    {l \in SeqsUpTo(MediaIds, Cardinality(MediaIds)) :
        \A i, j \in 1..Len(l) : i # j => l[i] # l[j]}

\* the same, in ascending order only
SortedMediaIdLists ==
    {l \in MediaIdLists : \A i, j \in 1..Len(l) : i < j => l[i] < l[j]}

TweetOf(id, text, media) == [id |-> id, timestamp |-> 100 + id, text |-> text, media |-> media]

\* What the Twitter client returns for a tweet: no file name is set
FetchedTweets ==
    {TweetOf(id, "new", [k \in 1..Len(l) |-> FetchedMedia(l[k])]) :
        id \in PostIds, l \in MediaIdLists}

\* What a snapshot file holds for a tweet: some of the media are bound
StoredTweets(id) ==
    UNION {{TweetOf(id, "old",
                [k \in 1..Len(l) |->
                    IF k \in B THEN BoundMedia(id, l[k]) ELSE FetchedMedia(l[k])]) :
            B \in SUBSET (1..Len(l))} : l \in SortedMediaIdLists}

\* The snapshots DataFile::load and DataFile::new can return: tweets in strictly
\* ascending id order, written by a run of this or of an older model version.
RECURSIVE TweetLists(_)
TweetLists(ids) ==
    IF ids = {} THEN {<<>>}
    ELSE
        LET hi == CHOOSE k \in ids : \A j \in ids : j <= k
            rest == TweetLists(ids \ {hi})
        IN  rest \cup {Append(r, t) : r \in rest, t \in StoredTweets(hi)}

Snapshots ==
    {[user_id |-> Account.user_id, tweets |-> ts, version |-> v] :
        ts \in TweetLists(PostIds), v \in {0, MODEL_VERSION}}

----------------------------------------------------------------------------
(* SpecMerge: merge_tweets applied, once and again, to every snapshot and  *)
(* every fetched Vec<Tweet> within the bounds.                             *)

\* no sync is running
Idle ==
    /\ args = [file_exists_policy |-> "Warn", concurrency |-> 1, rescan |-> FALSE,
               media_types |-> {}]
    /\ twitter = [user_id |-> <<>>, timeline |-> <<>>]
    /\ pc = "idle"
    /\ result = <<>>
    /\ since_id = <<>>
    /\ saved = <<>>
    /\ files = <<>>
    /\ files0 = <<>>
    /\ downloads = <<>>
    /\ next_task = 1
    /\ in_progress = {}
    /\ task = <<>>
    /\ delivered = <<>>
    /\ counter = 0
    /\ batch = [usernames |-> <<>>, account |-> 1, continue_on_error |-> FALSE,
                again |-> FALSE, result |-> <<>>, log |-> <<>>]
    /\ world = <<>>
    /\ user_dir_exists = FALSE

MergeInit ==
    /\ Idle
    /\ data_file \in Snapshots
    /\ new_tweets \in SeqsUpTo(FetchedTweets, MaxIncoming)
    /\ trail = <<data_file>>
    /\ returned = <<>>

\* data_file.merge_tweets(new_tweets)
Merge ==
    /\ Len(trail) < 3
    /\ LET r == MergeTweets(data_file, new_tweets)
       IN  /\ data_file' = r.data_file
           /\ trail' = Append(trail, r.data_file)
           /\ returned' = Append(returned, r.new)
    /\ UNCHANGED <<new_tweets, dvars>>

MergeNext == Merge

SpecMerge == MergeInit /\ [][MergeNext]_vars

----------------------------------------------------------------------------
(* Claims about merge_tweets (checked under SpecMerge).                    *)

\* the index of the tweet with this id in a Vec<Tweet>, 0 if there is none
RECURSIVE TweetIndex(_, _, _)
TweetIndex(tweets, id, i) ==
    IF i > Len(tweets) THEN 0
    ELSE IF tweets[i].id = id THEN i ELSE TweetIndex(tweets, id, i + 1)

HasTweet(tweets, id) == TweetIndex(tweets, id, 1) # 0
TweetById(tweets, id) == tweets[TweetIndex(tweets, id, 1)]

\* the positions of new_tweets holding the last (or only) tweet of their id
LastOccurrences ==
    {i \in 1..Len(new_tweets) :
        \A j \in (i + 1)..Len(new_tweets) : new_tweets[j].id # new_tweets[i].id}
OccursOnce(i) ==
    \A j \in 1..Len(new_tweets) : j # i => new_tweets[j].id # new_tweets[i].id

\* The stored tweets at the moment new_tweets[i] is merged: the snapshot before
\* the call when no earlier incoming tweet has been merged into it.
StoredWhenMerged(i) ==
    IF i = 1 THEN trail[1].tweets
    ELSE MergeTweets(trail[1], SubSeq(new_tweets, 1, i - 1)).data_file.tweets

Merged == Len(trail) >= 2

\* C1: merge_tweets preserves artifacts.  For every incoming post whose id is
\* already stored when it is merged, every media of the incoming post whose
\* media id the existing post also has ends up in the merged post with exactly
\* the existing media's file_name; the merged post has the incoming media list.
\* For a post id that occurs once in the incoming Vec the existing post is the
\* one of the snapshot before the call.
C1_MergePreservesArtifacts ==
    Merged =>
        \A i \in LastOccurrences :
            LET x == new_tweets[i]
                stored == StoredWhenMerged(i)
            IN  /\ OccursOnce(i) /\ HasTweet(trail[1].tweets, x.id)
                    => /\ HasTweet(stored, x.id)
                       /\ TweetById(stored, x.id) = TweetById(trail[1].tweets, x.id)
                /\ HasTweet(stored, x.id) =>
                    LET existing == TweetById(stored, x.id)
                        merged == TweetById(trail[2].tweets, x.id)
                    IN  /\ HasTweet(trail[2].tweets, x.id)
                        /\ Len(merged.media) = Len(x.media)
                        /\ \A k \in 1..Len(x.media) :
                            LET idx == FindMedia(existing.media, x.media[k].id, 1)
                            IN  /\ merged.media[k].id = x.media[k].id
                                /\ idx # 0 =>
                                    merged.media[k].file_name = existing.media[idx].file_name

\* C1 witness: a stored post with a bound media was merged with an incoming post
\* of the same id that has the media without a file name, and the merged post
\* has the media with the stored file name.
C1_Witness ==
    /\ Merged
    /\ \E i \in LastOccurrences :
        /\ OccursOnce(i)
        /\ HasTweet(trail[1].tweets, new_tweets[i].id)
        /\ \E k \in 1..Len(new_tweets[i].media) :
            LET existing == TweetById(trail[1].tweets, new_tweets[i].id)
                idx == FindMedia(existing.media, new_tweets[i].media[k].id, 1)
            IN  /\ idx # 0
                /\ IsSome(existing.media[idx].file_name)
                /\ IsNone(new_tweets[i].media[k].file_name)
                /\ TweetById(trail[2].tweets, new_tweets[i].id).media[k].file_name
                        = existing.media[idx].file_name

\* the (post id, media id, file name) bindings of a snapshot
Bindings(df) ==
    UNION {{<<df.tweets[i].id, df.tweets[i].media[k].id, df.tweets[i].media[k].file_name>> :
                k \in {k \in 1..Len(df.tweets[i].media) :
                            IsSome(df.tweets[i].media[k].file_name)}} :
            i \in 1..Len(df.tweets)}

\* C2 (as claimed): no binding is lost by a merge.  Every (post id, media id)
\* that had a file_name before merge_tweets has the identical file_name after it.
C2_NoBindingLost ==
    Merged => Bindings(trail[1]) \subseteq Bindings(trail[2])

\* C3: merge idempotence.  Merging the same Vec<Tweet> a second time leaves the
\* snapshot (user_id, version, tweets, media, file names) as the first merge
\* left it.
C3_MergeIdempotent ==
    Len(trail) >= 3 => trail[3] = trail[2]

\* C3 witness: a second merge has been done after a first one that changed the
\* snapshot (a post added, a stored post replaced).
C3_Witness ==
    /\ Len(trail) >= 3
    /\ trail[2].tweets # trail[1].tweets
    /\ Len(new_tweets) >= 2
    /\ \E i \in 1..Len(new_tweets) : HasTweet(trail[1].tweets, new_tweets[i].id)
    /\ \E i \in 1..Len(new_tweets) : ~HasTweet(trail[1].tweets, new_tweets[i].id)

----------------------------------------------------------------------------
(* download_task.rs and download/mod.rs: one account's sync.               *)
(* Indices into Vecs are 1-based here (tweet_index, media_index).          *)

Policies == {"Overwrite", "Warn", "Adopt"}
AllMediaTypes == {"photo", "video", "gif"}

Ok(v) == [kind |-> "Ok", value |-> v]

\* an anyhow::Error made with bail! or .context(..)
Anyhow(msg) == [tag |-> "Anyhow", msg |-> msg]
Err(e) == [kind |-> "Err", error |-> e]

\* StatusCode::is_success
IsSuccess(status) == status >= 200 /\ status < 300

\* A mutant of IsDownloadCandidate: a media that has a file name is a candidate again
IsDownloadCandidateAgain(media, tweet, media_types) ==
    IF media.type \notin media_types THEN None
    ELSE IF IsNone(media.url) THEN None
    ELSE Some([url |-> Unwrap(media.url),
               file_name |-> CandidateFileName(tweet.id, media.id, Unwrap(media.url))])

\* Media::is_download_candidate: Some((url, file_name)) or None
IsDownloadCandidate(media, tweet, media_types) ==
    IF media.type \notin media_types THEN None
    ELSE IF IsSome(media.file_name) THEN None
    ELSE IF IsNone(media.url) THEN None
    ELSE Some([url |-> Unwrap(media.url),
               file_name |-> CandidateFileName(tweet.id, media.id, Unwrap(media.url))])

\* user_dir.join(&filename)
Join(user_dir, filename) == [dir |-> user_dir, name |-> filename]

\* Path::parent
Parent(destination) == Some(destination.dir)

\* The DownloadTask pushed for a candidate, download/mod.rs lines 135-145
NewDownloadTask(c, tweet_index, media_index, user_dir, file_exists_policy) ==
    [url |-> c.url,
     destination |-> Join(user_dir, c.file_name),
     context |-> [tweet_index |-> tweet_index, media_index |-> media_index,
                  filename |-> c.file_name],
     overwrite |-> (file_exists_policy = "Overwrite")]

\* The inner loop of lines 133-147, over the media of one tweet
RECURSIVE EnumerateMedia(_, _, _, _, _, _)
EnumerateMedia(tweet, tweet_index, media_index, media_types, user_dir, file_exists_policy) ==
    IF media_index > Len(tweet.media) THEN <<>>
    ELSE
        LET c == IsDownloadCandidate(tweet.media[media_index], tweet, media_types)
            rest == EnumerateMedia(tweet, tweet_index, media_index + 1, media_types,
                                   user_dir, file_exists_policy)
        IN  IF IsSome(c)
            THEN <<NewDownloadTask(Unwrap(c), tweet_index, media_index, user_dir,
                                   file_exists_policy)>> \o rest
            ELSE rest

\* The outer loop of lines 132-148, over the tweets of the DataFile
RECURSIVE EnumerateDownloads(_, _, _, _, _)
EnumerateDownloads(df, tweet_index, media_types, user_dir, file_exists_policy) ==
    IF tweet_index > Len(df.tweets) THEN <<>>
    ELSE EnumerateMedia(df.tweets[tweet_index], tweet_index, 1, media_types, user_dir,
                        file_exists_policy)
         \o EnumerateDownloads(df, tweet_index + 1, media_types, user_dir, file_exists_policy)

\* A mutant of Bind: the media that is bound is moved to the front of its tweet
BindMovingToFront(df, ctx) ==
    LET media == df.tweets[ctx.tweet_index].media
        bound == [media[ctx.media_index] EXCEPT !.file_name = Some(ctx.filename)]
    IN  [df EXCEPT !.tweets[ctx.tweet_index].media =
            <<bound>> \o SubSeq(media, 1, ctx.media_index - 1)
                     \o SubSeq(media, ctx.media_index + 1, Len(media))]

\* A mutant of Bind: the media index of the context is not used
BindFirstMedia(df, ctx) ==
    [df EXCEPT !.tweets[ctx.tweet_index].media[1].file_name = Some(ctx.filename)]

\* data_file.tweets[ctx.tweet_index].media[ctx.media_index].file_name = Some(ctx.filename)
Bind(df, ctx) ==
    [df EXCEPT !.tweets[ctx.tweet_index].media[ctx.media_index].file_name = Some(ctx.filename)]

\* data_file.tweets.sort(): a stable sort by id (insertion sort)
RECURSIVE InsertTweet(_, _)
InsertTweet(sorted, t) ==
    IF Len(sorted) = 0 THEN <<t>>
    ELSE IF sorted[Len(sorted)].id <= t.id THEN Append(sorted, t)
    ELSE Append(InsertTweet(SubSeq(sorted, 1, Len(sorted) - 1), t), sorted[Len(sorted)])

RECURSIVE SortTweets(_, _, _)
SortTweets(tweets, i, sorted) ==
    IF i > Len(tweets) THEN sorted
    ELSE SortTweets(tweets, i + 1, InsertTweet(sorted, tweets[i]))

\* serde_json values: what tweets.json holds
JNull == [json |-> "null"]
JNumber(n) == [json |-> "number", n |-> n]
JString(s) == [json |-> "string", s |-> s]
JArray(items) == [json |-> "array", items |-> items]
JObject(fields) == [json |-> "object", fields |-> fields]

\* A mutant of OptionToJson: the field is written as null whatever it holds
OptionToJsonNull(o) == JNull

\* Serialize for Option<String> and Option<Url>: null, or the string
OptionToJson(o) == IF IsNone(o) THEN JNull ELSE JString(Unwrap(o))

\* Deserialize for Option<String> and Option<Url>
OptionFromJson(v) == IF v.json = "null" THEN None ELSE Some(v.s)

\* #[derive(Serialize)] of Media, Tweet and DataFile
MediaToJson(m) ==
    JObject([id |-> JNumber(m.id), type |-> JString(m.type),
             file_name |-> OptionToJson(m.file_name), url |-> OptionToJson(m.url)])

TweetToJson(t) ==
    JObject([id |-> JNumber(t.id), timestamp |-> JNumber(t.timestamp),
             text |-> JString(t.text),
             media |-> JArray([k \in 1..Len(t.media) |-> MediaToJson(t.media[k])])])

\* serde_json::to_string_pretty(&self)
ToJson(df) ==
    JObject([user_id |-> JNumber(df.user_id),
             tweets |-> JArray([i \in 1..Len(df.tweets) |-> TweetToJson(df.tweets[i])]),
             version |-> JNumber(df.version)])

\* #[derive(Deserialize)] of Media, Tweet and DataFile
MediaFromJson(v) ==
    [id |-> v.fields.id.n, type |-> v.fields.type.s,
     file_name |-> OptionFromJson(v.fields.file_name), url |-> OptionFromJson(v.fields.url)]

TweetFromJson(v) ==
    [id |-> v.fields.id.n, timestamp |-> v.fields.timestamp.n, text |-> v.fields.text.s,
     media |-> [k \in 1..Len(v.fields.media.items) |-> MediaFromJson(v.fields.media.items[k])]]

\* A tweets.json that a failed fs::write has left incomplete
Torn == [torn |-> TRUE]

\* serde_json::from_str::<DataFile>(&text): an error for a text that is not a
\* complete JSON document
FromJson(doc) ==
    IF "json" \notin DOMAIN doc THEN Err(Anyhow("Unable to deserialize data file"))
    ELSE Ok([user_id |-> doc.fields.user_id.n,
             tweets |-> [i \in 1..Len(doc.fields.tweets.items) |->
                            TweetFromJson(doc.fields.tweets.items[i])],
             version |-> doc.fields.version.n])

\* A mutant of Load: the user id of the file is not compared
LoadUnchecked(file, validate_user_id) ==
    IF IsNone(file) THEN Ok(None)
    ELSE LET parsed == FromJson(Unwrap(file))
         IN  IF parsed.kind = "Err" THEN parsed
             ELSE Ok(Some([parsed.value EXCEPT
                            !.tweets = SortTweets(parsed.value.tweets, 1, <<>>)]))

\* DataFile::load: Ok(Some(data_file)), Ok(None) or Err
Load(file, validate_user_id) ==
    IF IsNone(file) THEN Ok(None)
    ELSE LET parsed == FromJson(Unwrap(file))
         IN  IF parsed.kind = "Err" THEN parsed
             ELSE IF parsed.value.user_id # validate_user_id
             THEN Err(Anyhow("User id mismatch!"))
             ELSE Ok(Some([parsed.value EXCEPT
                            !.tweets = SortTweets(parsed.value.tweets, 1, <<>>)]))

\* How fs::write(path, text) can end: the file written, or an error with the
\* file as it was (it could not be opened) or incomplete.
WriteOutcomes == {"written", "not_opened", "torn"}

\* DataFile::save: the file afterwards
Save(df, file, how) ==
    CASE how = "written" -> Some(ToJson(df))
      [] how = "not_opened" -> file
      [] how = "torn" -> Some(Torn)

\* A mutant of HasCapacity: one future too many is admitted
HasCapacityOffByOne(len, max) == len <= max

\* buffer_unordered(concurrency): another future is pulled from the stream
\* while fewer than `max` are in progress
HasCapacity(len, max) == len < max

\* A mutant of StreamDone: the stream ends as soon as every download has been
\* started
StreamDoneEarly(next, n, running) == next > n

\* buffered.next() returns None: stream::iter(downloads) is exhausted and no
\* future is in progress
StreamDone(next, n, running) == next > n /\ running = {}

\* A mutant of OpenScratch: the response body is written to the destination
OpenDestination(destination, t) == [kind |-> "path", path |-> destination]

\* NamedTempFile::new_in(parent) and temp.reopen(): the file the body is written to
OpenScratch(destination, t) == [kind |-> "scratch", of |-> t]

\* A mutant of DestinationTaken: the overwrite flag is ignored
DestinationTakenAlways(overwrite, exists) == exists

\* download_impl, line 78: !overwrite && destination.exists()
DestinationTaken(overwrite, exists) == ~overwrite /\ exists

\* A mutant of Classify: a failed request is logged and skipped like a 404
ClassifyTransportSkipped(r, file_exists_policy) ==
    IF r.kind = "Ok" THEN "downloaded"
    ELSE IF r.error.tag = "DestinationExists" /\ file_exists_policy = "Adopt" THEN "adopted"
    ELSE IF r.error.tag = "DestinationExists" /\ file_exists_policy = "Warn" THEN "exists"
    ELSE IF r.error.tag = "BadResponse" /\ r.error.code = 404 THEN "not_found"
    ELSE IF r.error.tag = "RequestError" THEN "not_found"
    ELSE "fatal"

\* A mutant of Classify: a 404 ends the batch like any other bad response
ClassifyNotFoundFatal(r, file_exists_policy) ==
    IF r.kind = "Ok" THEN "downloaded"
    ELSE IF r.error.tag = "DestinationExists" /\ file_exists_policy = "Adopt" THEN "adopted"
    ELSE IF r.error.tag = "DestinationExists" /\ file_exists_policy = "Warn" THEN "exists"
    ELSE "fatal"

\* The match of download/mod.rs lines 156-183 on a download's result
Classify(r, file_exists_policy) ==
    IF r.kind = "Ok" THEN "downloaded"
    ELSE IF r.error.tag = "DestinationExists" /\ file_exists_policy = "Adopt" THEN "adopted"
    ELSE IF r.error.tag = "DestinationExists" /\ file_exists_policy = "Warn" THEN "exists"
    ELSE IF r.error.tag = "BadResponse" /\ r.error.code = 404 THEN "not_found"
    ELSE "fatal"

\* A mutant of Dropped: the future goes on living after the stream is gone
Detached(tsk) == tsk

\* A future of buffer_unordered is dropped with the stream (return at line
\* 181): it is never polled again and its NamedTempFile removes the scratch file
Dropped(tsk) == [tsk EXCEPT !.pc = "dropped", !.scratch = None, !.handle = None]

\* DownloadTask::download: the result with the task's context
Download(tsk, r) == [result |-> r, ctx |-> tsk.context]

\* the errors of download_impl
DestinationExists(path) == [tag |-> "DestinationExists", path |-> path]
FileError == [tag |-> "FileError"]
InvalidDestination(path) == [tag |-> "InvalidDestination", path |-> path]
RequestError == [tag |-> "RequestError"]
BadResponse(code, url) == [tag |-> "BadResponse", code |-> code, url |-> url]

\* a download that has not been pulled from the stream yet
Queued == [pc |-> "queued", handle |-> None, scratch |-> None, received |-> 0,
           written |-> 0, requests |-> 0]

\* the content of a file that was there before the run
OldContent == [by |-> 0, chunks |-> 1, intact |-> TRUE]

\* the username download_account is called with
Username == batch.usernames[batch.account]

\* out_dir.join(username)
UserDir == Username

----------------------------------------------------------------------------
(* The inputs of a sync: arguments, the remote timeline, the files on disk *)

\* the statuses a media server answers with
Statuses == {200, 404, 500}

FetchedTweet(id, media_ids) ==
    TweetOf(id, "new", [k \in 1..Len(media_ids) |-> FetchedMedia(media_ids[k])])

\* the account's timeline, newest tweet first
Timelines == {<<FetchedTweet(1, <<1, 2>>)>>,
              <<FetchedTweet(2, <<1>>), FetchedTweet(1, <<1, 2>>)>>}

\* tweets.json before the run: no file (a first run), or the file of an earlier
\* run that saw tweet 1 and downloaded its first media
StoredFiles ==
    {None,
     Some(ToJson([user_id |-> Account.user_id,
                  tweets |-> <<TweetOf(1, "old", <<BoundMedia(1, 1), FetchedMedia(2)>>)>>,
                  version |-> MODEL_VERSION]))}

\* media files that may be in user_dir before the run without being bound
StrayNames == {CandidateFileName(1, 2, PathOf(2)), CandidateFileName(2, 1, PathOf(1))}

\* the media files an earlier run has downloaded and bound in tweets.json
BoundNames(file) ==
    IF IsNone(file) \/ FromJson(Unwrap(file)).kind = "Err" THEN {}
    ELSE LET tweets == FromJson(Unwrap(file)).value.tweets
         IN  UNION {{Unwrap(tweets[i].media[k].file_name) :
                        k \in {k \in 1..Len(tweets[i].media) :
                                    IsSome(tweets[i].media[k].file_name)}} :
                    i \in 1..Len(tweets)}

\* get_all_tweets_for_user(user_id, since_id): the tweets newer than since_id
RECURSIVE TweetsSince(_, _)
TweetsSince(timeline, since) ==
    IF Len(timeline) = 0 THEN <<>>
    ELSE IF IsSome(since) /\ timeline[1].id <= Unwrap(since) THEN <<>>
    ELSE <<timeline[1]>> \o TweetsSince(Tail(timeline), since)

----------------------------------------------------------------------------
(* Spec: download_account, from the resolution of the username to its      *)
(* return.                                                                 *)

NoMerge == trail = <<>> /\ returned = <<>>

\* `download` called for one username, the first call of the program
OneAccount ==
    /\ batch = [usernames |-> <<Account.username>>, account |-> 1,
                continue_on_error |-> FALSE, again |-> FALSE, result |-> None, log |-> <<>>]
    /\ world = <<>>

Init ==
    /\ args \in [file_exists_policy : Policies, concurrency : 1..MaxConcurrency,
                 rescan : {FALSE}, media_types : {AllMediaTypes}]
    /\ twitter \in [user_id : {Some(Account.user_id)}, timeline : Timelines]
    /\ saved \in StoredFiles
    /\ files \in {[n \in present \cup BoundNames(saved) |-> OldContent] :
                        present \in SUBSET StrayNames}
    /\ files0 = files
    /\ data_file = DataFileNew(0)       \* no DataFile yet: Begin loads or creates it
    /\ new_tweets = <<>>
    /\ NoMerge
    /\ pc = "start"
    /\ result = None
    /\ since_id = None
    /\ downloads = <<>>
    /\ next_task = 1
    /\ in_progress = {}
    /\ task = <<>>
    /\ delivered = <<>>
    /\ counter = 0
    /\ OneAccount
    /\ user_dir_exists = (IsSome(saved) \/ DOMAIN files # {})

\* A mutant of SinceId: a snapshot of an older model version is not refreshed
SinceIdOfAnyVersion(rescan, df) == IF rescan THEN None ELSE LatestTweetId(df)

\* download/mod.rs lines 119-124: the cursor handed to get_all_tweets_for_user
SinceId(rescan, df) ==
    IF rescan \/ df.version < MODEL_VERSION THEN None ELSE LatestTweetId(df)

\* download_account returns r
Return(r) == pc' = "returned" /\ result' = Some(r)

engine == <<downloads, next_task, in_progress, task, delivered, counter, files, files0>>

\* A mutant of Begin: user_dir is created before the username is resolved
BeginDirFirst ==
    /\ pc = "start"
    /\ UNCHANGED <<args, twitter, new_tweets, trail, returned, saved, engine, batch, world>>
    /\ \E dir_created \in BOOLEAN :
        IF ~dir_created
        THEN /\ Return(Err(Anyhow("Unable to create output directory")))
             /\ UNCHANGED <<data_file, since_id, user_dir_exists>>
        ELSE
            /\ user_dir_exists' = TRUE
            /\ IF IsNone(twitter.user_id)
               THEN /\ Return(Err(Anyhow("Unable to find user")))
                    /\ UNCHANGED <<data_file, since_id>>
               ELSE
                LET loaded == Load(saved, Unwrap(twitter.user_id))
                IN  IF loaded.kind = "Err"
                    THEN Return(Err(loaded.error)) /\ UNCHANGED <<data_file, since_id>>
                    ELSE
                        LET df == IF IsSome(loaded.value) THEN Unwrap(loaded.value)
                                  ELSE DataFileNew(Unwrap(twitter.user_id))
                        IN  /\ data_file' = df
                            /\ since_id' = SinceId(args.rescan, df)
                            /\ pc' = "fetch"
                            /\ UNCHANGED result

\* download/mod.rs lines 108-124: the user id, the directory, the DataFile, the cursor
Begin ==
    /\ pc = "start"
    /\ UNCHANGED <<args, twitter, new_tweets, trail, returned, saved, engine, batch, world>>
    /\ IF IsNone(twitter.user_id)
       THEN /\ Return(Err(Anyhow("Unable to find user")))
            /\ UNCHANGED <<data_file, since_id, user_dir_exists>>
       ELSE \E dir_created \in BOOLEAN :
            LET loaded == Load(saved, Unwrap(twitter.user_id))
            IN  IF ~dir_created
                THEN /\ Return(Err(Anyhow("Unable to create output directory")))
                     /\ UNCHANGED <<data_file, since_id, user_dir_exists>>
                ELSE
                    /\ user_dir_exists' = TRUE
                    /\ IF loaded.kind = "Err"
                       THEN Return(Err(loaded.error)) /\ UNCHANGED <<data_file, since_id>>
                       ELSE
                        LET df == IF IsSome(loaded.value) THEN Unwrap(loaded.value)
                                  ELSE DataFileNew(Unwrap(twitter.user_id))
                        IN  /\ data_file' = df
                            /\ since_id' = SinceId(args.rescan, df)
                            /\ pc' = "fetch"
                            /\ UNCHANGED result

\* lines 126-128: the fetched tweets are merged and the DataFile is saved
MergeAndSave(got) ==
    \E how \in WriteOutcomes :
        LET merged == MergeTweets(data_file, got).data_file
        IN  /\ new_tweets' = got
            /\ data_file' = merged
            /\ saved' = Save(merged, saved, how)
            /\ IF how = "written" THEN pc' = "enumerate" /\ UNCHANGED result
               ELSE Return(Err(Anyhow("Unable to write data file")))

\* lines 125-128: fetch, merge, save
FetchAndMerge ==
    /\ pc = "fetch"
    /\ UNCHANGED <<args, twitter, trail, returned, since_id, engine, batch, world,
                   user_dir_exists>>
    /\ \E fetched \in BOOLEAN :
        IF ~fetched
        THEN Return(Err(Anyhow("Unable to fetch tweets"))) /\ UNCHANGED <<data_file, new_tweets, saved>>
        ELSE MergeAndSave(TweetsSince(twitter.timeline, since_id))

\* lines 130-153: the download tasks and the stream over them
Enumerate ==
    /\ pc = "enumerate"
    /\ downloads' = EnumerateDownloads(data_file, 1, args.media_types, UserDir,
                                       args.file_exists_policy)
    /\ task' = [t \in 1..Len(downloads') |-> Queued]
    /\ next_task' = 1
    /\ in_progress' = {}
    /\ counter' = 0
    /\ files0' = files
    /\ pc' = "polling"
    /\ UNCHANGED <<args, twitter, data_file, new_tweets, trail, returned, result, since_id,
                   saved, files, delivered, batch, world, user_dir_exists>>

\* the fill loop of buffer_unordered has something to pull
CanAdmit ==
    /\ HasCapacity(Cardinality(in_progress), args.concurrency)
    /\ next_task <= Len(downloads)

\* futures are polled once the fill loop is through
Polling(t) == pc = "polling" /\ ~CanAdmit /\ t \in in_progress

config == <<args, twitter, new_tweets, trail, returned, since_id, downloads, files0,
           batch, world, user_dir_exists>>

\* buffer_unordered pulls the next DownloadTask::download future from the stream
Admit ==
    /\ pc = "polling"
    /\ CanAdmit
    /\ in_progress' = in_progress \cup {next_task}
    /\ task' = [task EXCEPT ![next_task].pc = "pushed"]
    /\ next_task' = next_task + 1
    /\ UNCHANGED <<config, data_file, saved, files, delivered, counter, pc, result>>

\* A mutant of Complete: the scratch file is not removed with the NamedTempFile
CompleteKeepingScratch(t, r) ==
    /\ in_progress' = in_progress \ {t}
    /\ task' = [task EXCEPT ![t] = [@ EXCEPT !.pc = "finished", !.handle = None]]
    /\ delivered' = Append(delivered, [out |-> Download(downloads[t], r), of |-> t])
    /\ pc' = "handling"
    /\ UNCHANGED <<config, data_file, saved, counter, next_task, result>>

\* The future of download t completes with r: its scratch file (if it still has
\* one) is removed as the NamedTempFile is dropped, and the stream yields (r, ctx).
Complete(t, r) ==
    /\ in_progress' = in_progress \ {t}
    /\ task' = [task EXCEPT ![t] = [@ EXCEPT !.pc = "finished", !.scratch = None,
                                             !.handle = None]]
    /\ delivered' = Append(delivered, [out |-> Download(downloads[t], r), of |-> t])
    /\ pc' = "handling"
    /\ UNCHANGED <<config, data_file, saved, counter, next_task, result>>

\* the files of user_dir with `name` holding `content`
WithFile(fs, name, content) ==
    [n \in (DOMAIN fs) \cup {name} |-> IF n = name THEN content ELSE fs[n]]

\* download_impl lines 61-66: the scratch file is created and the request sent
TaskStart(t) ==
    /\ Polling(t)
    /\ task[t].pc = "pushed"
    /\ LET destination == downloads[t].destination
       IN  IF IsNone(Parent(destination))
           THEN Complete(t, Err(InvalidDestination(destination))) /\ UNCHANGED files
           ELSE \E created \in BOOLEAN :
                IF ~created
                THEN Complete(t, Err(FileError)) /\ UNCHANGED files
                ELSE
                    LET handle == OpenScratch(destination, t)
                        empty == [by |-> t, chunks |-> 0, intact |-> TRUE]
                    IN  /\ task' = [task EXCEPT ![t] =
                                [pc |-> "sent", handle |-> Some(handle),
                                 scratch |-> Some(empty), received |-> 0, written |-> 0,
                                 requests |-> 1]]
                        /\ files' = IF handle.kind = "path"
                                    THEN WithFile(files, destination.name, empty)
                                    ELSE files
                        /\ UNCHANGED <<config, data_file, saved, delivered, counter, pc,
                                       result, next_task, in_progress>>

\* lines 66-69: the response arrives, or the request fails
TaskResponse(t) ==
    /\ Polling(t)
    /\ task[t].pc = "sent"
    /\ UNCHANGED files
    /\ \/ Complete(t, Err(RequestError))
       \/ \E status \in Statuses :
            IF ~IsSuccess(status)
            THEN Complete(t, Err(BadResponse(status, downloads[t].url)))
            ELSE /\ task' = [task EXCEPT ![t].pc = "body"]
                 /\ UNCHANGED <<config, data_file, saved, delivered, counter, pc, result,
                                next_task, in_progress>>

\* lines 71-76: a chunk of the body arrives and is written; file.write may
\* take less than the whole chunk, and its return value is not looked at
TaskChunk(t) ==
    /\ Polling(t)
    /\ task[t].pc = "body"
    /\ task[t].received < BodyChunks
    /\ \/ Complete(t, Err(RequestError)) /\ UNCHANGED files
       \/ Complete(t, Err(FileError)) /\ UNCHANGED files
       \/ \E whole \in BOOLEAN :
            LET handle == Unwrap(task[t].handle)
                before == IF handle.kind = "path" THEN files[handle.path.name]
                          ELSE Unwrap(task[t].scratch)
                after == [before EXCEPT !.chunks = @ + 1, !.intact = @ /\ whole]
            IN  /\ task' = [task EXCEPT ![t] =
                        [@ EXCEPT !.received = @ + 1, !.written = @ + 1,
                                  !.scratch = IF handle.kind = "path" THEN @ ELSE Some(after)]]
                /\ files' = IF handle.kind = "path"
                            THEN WithFile(files, handle.path.name, after)
                            ELSE files
                /\ UNCHANGED <<config, data_file, saved, delivered, counter, pc, result,
                               next_task, in_progress>>

\* lines 71 and 77-86: the body has ended; flush, the check of the destination,
\* the rename of the scratch file
TaskEnd(t) ==
    /\ Polling(t)
    /\ task[t].pc = "body"
    /\ task[t].received = BodyChunks
    /\ LET destination == downloads[t].destination
       IN  \/ Complete(t, Err(FileError)) /\ UNCHANGED files          \* flush or persist failed
           \/ IF DestinationTaken(downloads[t].overwrite, destination.name \in DOMAIN files)
              THEN Complete(t, Err(DestinationExists(destination))) /\ UNCHANGED files
              ELSE /\ files' = WithFile(files, destination.name, Unwrap(task[t].scratch))
                   /\ Complete(t, Ok([saved_at |-> destination, written |-> task[t].written]))

\* lines 156-183: the consumer's match on the pair the stream has yielded
Consume ==
    /\ pc = "handling"
    /\ LET o == delivered[Len(delivered)].out
           class == Classify(o.result, args.file_exists_policy)
       IN  CASE class \in {"downloaded", "adopted"} ->
                    \E how \in WriteOutcomes :
                        /\ data_file' = Bind(data_file, o.ctx)
                        /\ saved' = Save(data_file', saved, how)
                        /\ counter' = IF class = "downloaded" THEN counter + 1 ELSE counter
                        /\ pc' = "polling"
                        /\ UNCHANGED <<result, in_progress, task>>
             [] class \in {"exists", "not_found"} ->
                    /\ pc' = "polling"
                    /\ UNCHANGED <<data_file, saved, counter, result, in_progress, task>>
             [] class = "fatal" ->
                    \* return Err(e.into()): the stream and its futures are dropped
                    /\ Return(Err(o.result.error))
                    /\ in_progress' = {}
                    /\ task' = [t \in DOMAIN task |->
                                    IF t \in in_progress THEN Dropped(task[t]) ELSE task[t]]
                    /\ UNCHANGED <<data_file, saved, counter>>
    /\ UNCHANGED <<config, files, delivered, next_task>>

\* lines 155 and 186-192: the stream has ended; the final save
Finish ==
    /\ pc = "polling"
    /\ StreamDone(next_task, Len(downloads), in_progress)
    /\ \E how \in WriteOutcomes :
        /\ saved' = Save(data_file, saved, how)
        /\ IF how = "written" THEN Return(Ok(counter))
           ELSE Return(Err(Anyhow("Error saving data file")))
    /\ UNCHANGED <<config, data_file, files, delivered, counter, next_task, in_progress, task>>

Next ==
    \/ Begin
    \/ FetchAndMerge
    \/ Enumerate
    \/ Admit
    \/ \E t \in DOMAIN task : TaskStart(t)
    \/ \E t \in DOMAIN task : TaskResponse(t)
    \/ \E t \in DOMAIN task : TaskChunk(t)
    \/ \E t \in DOMAIN task : TaskEnd(t)
    \/ Consume
    \/ Finish

Spec == Init /\ [][Next]_vars

\* Every transfer goes on until it ends and the consumer goes on consuming.
FairSpec == Spec /\ WF_vars(Next)

----------------------------------------------------------------------------
(* SpecRun: `download`, the loop over the usernames of one call.           *)

\* a second account of the same call (the usernames come out of a BTreeSet:
\* distinct, in ascending order)
Other == [username |-> "bob", user_id |-> 9]

\* tweets.json of an account an earlier run has synced: tweet 1, its media bound
SyncedFile(user_id, version) ==
    Some(ToJson([user_id |-> user_id,
                 tweets |-> <<TweetOf(1, "old", <<BoundMedia(1, 1)>>)>>,
                 version |-> version]))

\* tweets.json in the user_dir of account a before the call: none, the file of
\* this model version, the file of an older one, the file of another account
\* (the username has changed hands)
RunFiles(a) ==
    {None,
     SyncedFile(a.user_id, MODEL_VERSION),
     SyncedFile(a.user_id, MODEL_VERSION - 1),
     SyncedFile(a.user_id + 1, MODEL_VERSION)}

RunTimeline == <<FetchedTweet(2, <<1>>), FetchedTweet(1, <<1>>)>>

\* the remote side and the user_dir of an account
WorldOf(user_id, file) ==
    [twitter |-> [user_id |-> user_id, timeline |-> RunTimeline],
     saved |-> file,
     files |-> [n \in BoundNames(file) |-> OldContent],
     dir |-> IsSome(file)]

Worlds ==
    {[n \in {Account.username, Other.username} |-> IF n = Account.username THEN wa ELSE wb] :
        wa \in {WorldOf(u, f) : u \in {None, Some(Account.user_id)}, f \in RunFiles(Account)},
        wb \in {WorldOf(Some(Other.user_id), f) :
                    f \in {None, SyncedFile(Other.user_id + 1, MODEL_VERSION)}}}

RunInit ==
    /\ args \in [file_exists_policy : {"Warn"}, concurrency : {1},
                 rescan : BOOLEAN, media_types : {AllMediaTypes}]
    /\ batch \in [usernames : {<<Account.username, Other.username>>}, account : {1},
                  continue_on_error : BOOLEAN, again : {FALSE}, result : {None},
                  log : {<<>>}]
    /\ world \in Worlds
    /\ twitter = world[Username].twitter
    /\ saved = world[Username].saved
    /\ files = world[Username].files
    /\ user_dir_exists = world[Username].dir
    /\ files0 = files
    /\ data_file = DataFileNew(0)
    /\ new_tweets = <<>>
    /\ NoMerge
    /\ pc = "start"
    /\ result = None
    /\ since_id = None
    /\ downloads = <<>>
    /\ next_task = 1
    /\ in_progress = {}
    /\ task = <<>>
    /\ delivered = <<>>
    /\ counter = 0

\* user_dir and the remote side as the sync of Username leaves them
Shelved ==
    [world EXCEPT ![Username] = [twitter |-> twitter, saved |-> saved, files |-> files,
                                 dir |-> user_dir_exists]]

Logged == Append(batch.log, [username |-> Username, result |-> Unwrap(result)])

\* if let Err(e) = download_account(..) with args.continue_on_error
Skipped(r, continue_on_error) == r.kind = "Err" /\ continue_on_error

\* A mutant of Passes: --continue-on-error is not looked at
PassesOnlyOk(r, continue_on_error) == r.kind = "Ok"

\* download/mod.rs lines 54-71: the loop goes on after this result
Passes(r, continue_on_error) == r.kind = "Ok" \/ Skipped(r, continue_on_error)

\* lines 68-70: return Err(e)
AccountFailed ==
    /\ pc = "returned"
    /\ ~Passes(Unwrap(result), batch.continue_on_error)
    /\ batch' = [batch EXCEPT !.result = Some(Err(Unwrap(result).error)), !.log = Logged]
    /\ world' = Shelved
    /\ pc' = "done"
    /\ UNCHANGED <<mvars, args, twitter, result, since_id, saved, engine, user_dir_exists>>

\* line 53: the next username of the loop
NextAccount ==
    /\ pc = "returned"
    /\ Passes(Unwrap(result), batch.continue_on_error)
    /\ batch.account < Len(batch.usernames)
    /\ batch' = [batch EXCEPT !.account = @ + 1, !.log = Logged]
    /\ world' = Shelved
    /\ LET next == world[batch.usernames[batch.account + 1]]
       IN  /\ twitter' = next.twitter
           /\ saved' = next.saved
           /\ files' = next.files
           /\ files0' = next.files
           /\ user_dir_exists' = next.dir
    /\ data_file' = DataFileNew(0)
    /\ new_tweets' = <<>>
    /\ pc' = "start"
    /\ result' = None
    /\ since_id' = None
    /\ downloads' = <<>>
    /\ next_task' = 1
    /\ in_progress' = {}
    /\ task' = <<>>
    /\ delivered' = <<>>
    /\ counter' = 0
    /\ UNCHANGED <<args, trail, returned>>

\* line 73: Ok(()) after the last username
AllDone ==
    /\ pc = "returned"
    /\ Passes(Unwrap(result), batch.continue_on_error)
    /\ batch.account = Len(batch.usernames)
    /\ batch' = [batch EXCEPT !.result = Some(Ok(<<>>)), !.log = Logged]
    /\ world' = Shelved
    /\ pc' = "done"
    /\ UNCHANGED <<mvars, args, twitter, result, since_id, saved, engine, user_dir_exists>>

RunNext ==
    \/ Next
    \/ AccountFailed
    \/ NextAccount
    \/ AllDone

SpecRun == RunInit /\ [][RunNext]_vars

----------------------------------------------------------------------------
(* SpecStore: the operations on a DataFile (new, load, merge_tweets, the   *)
(* binding of a file name, save) applied in any order to the tweets.json   *)
(* files a user_dir can hold.                                              *)

\* the tweets of a tweets.json found on disk
DiskTweet(id) ==
    IF id = 1 THEN TweetOf(1, "old", <<BoundMedia(1, 1), FetchedMedia(2)>>)
    ELSE TweetOf(id, "old", <<FetchedMedia(1)>>)

\* in ascending order as save writes them, or (a file of another origin) not
DiskTweetLists == {<<>>, <<DiskTweet(1)>>, <<DiskTweet(1), DiskTweet(2)>>,
                   <<DiskTweet(2), DiskTweet(1)>>}

DiskFiles ==
    {None, Some(Torn)} \cup
    {Some(ToJson([user_id |-> u, tweets |-> ts, version |-> v])) :
        u \in {Account.user_id, Other.user_id}, ts \in DiskTweetLists,
        v \in {MODEL_VERSION - 1, MODEL_VERSION}}

\* what get_all_tweets_for_user returns, newest tweet first
StoreIncoming == {<<>>, <<FetchedTweet(1, <<2>>)>>,
                  <<FetchedTweet(2, <<1>>), FetchedTweet(1, <<1, 2>>)>>}

StoreInit ==
    /\ saved \in DiskFiles
    /\ data_file = DataFileNew(Account.user_id)
    /\ pc = "new"
    /\ new_tweets = <<>>
    /\ NoMerge
    /\ args = [file_exists_policy |-> "Warn", concurrency |-> 1, rescan |-> FALSE,
               media_types |-> AllMediaTypes]
    /\ twitter = [user_id |-> Some(Account.user_id), timeline |-> <<>>]
    /\ result = None
    /\ since_id = None
    /\ files = <<>>
    /\ files0 = <<>>
    /\ downloads = <<>>
    /\ next_task = 1
    /\ in_progress = {}
    /\ task = <<>>
    /\ delivered = <<>>
    /\ counter = 0
    /\ OneAccount
    /\ user_dir_exists = TRUE

kept == <<args, twitter, since_id, files, files0, downloads, next_task, in_progress, task,
         delivered, counter, batch, world, returned, user_dir_exists>>

\* DataFile::load(&user_dir, user_id).await?.unwrap_or_else(|| DataFile::new(user_id))
StoreLoad ==
    /\ \E user_id \in {Account.user_id, Other.user_id} :
        LET loaded == Load(saved, user_id)
        IN  /\ result' = Some([validate_user_id |-> user_id, loaded |-> loaded])
            /\ data_file' = IF loaded.kind = "Err" THEN data_file
                            ELSE IF IsSome(loaded.value) THEN Unwrap(loaded.value)
                            ELSE DataFileNew(user_id)
    /\ pc' = "loaded"
    /\ UNCHANGED <<kept, saved, new_tweets, trail>>

\* data_file.merge_tweets(new_tweets)
StoreMerge ==
    /\ \E incoming \in StoreIncoming :
        /\ new_tweets' = incoming
        /\ data_file' = MergeTweets(data_file, incoming).data_file
    /\ pc' = "merged"
    /\ result' = None
    /\ UNCHANGED <<kept, saved, trail>>

\* the file name of a download candidate is bound
StoreBind ==
    /\ \E tweet_index \in 1..Len(data_file.tweets) :
        \E media_index \in 1..Len(data_file.tweets[tweet_index].media) :
            LET tweet == data_file.tweets[tweet_index]
                c == IsDownloadCandidate(tweet.media[media_index], tweet, args.media_types)
            IN  /\ IsSome(c)
                /\ data_file' = Bind(data_file, [tweet_index |-> tweet_index,
                                                 media_index |-> media_index,
                                                 filename |-> Unwrap(c).file_name])
    /\ pc' = "bound"
    /\ result' = None
    /\ UNCHANGED <<kept, saved, new_tweets, trail>>

\* data_file.save(&user_dir); trail holds the DataFile tweets.json was written from
StoreSave ==
    /\ \E how \in WriteOutcomes :
        /\ saved' = Save(data_file, saved, how)
        /\ trail' = CASE how = "written" -> <<data_file>>
                       [] how = "not_opened" -> trail
                       [] how = "torn" -> <<>>
    /\ pc' = "saved"
    /\ result' = None
    /\ UNCHANGED <<kept, data_file, new_tweets>>

StoreNext ==
    \/ StoreLoad
    \/ StoreMerge
    \/ StoreBind
    \/ StoreSave

SpecStore == StoreInit /\ [][StoreNext]_vars

----------------------------------------------------------------------------
(* SpecResume: the program is run for an account for the first time, and   *)
(* then a second time on the user_dir the first run has left.              *)

ResumeInit ==
    /\ args \in [file_exists_policy : {"Warn", "Overwrite"}, concurrency : {1},
                 rescan : {FALSE}, media_types : {AllMediaTypes}]
    /\ twitter = [user_id |-> Some(Account.user_id),
                  timeline |-> <<FetchedTweet(1, <<1, 2>>)>>]
    /\ saved = None                     \* the account has not been synced before
    /\ files \in {[n \in present |-> OldContent] : present \in SUBSET StrayNames}
    /\ files0 = files
    /\ data_file = DataFileNew(0)
    /\ new_tweets = <<>>
    /\ NoMerge
    /\ pc = "start"
    /\ result = None
    /\ since_id = None
    /\ downloads = <<>>
    /\ next_task = 1
    /\ in_progress = {}
    /\ task = <<>>
    /\ delivered = <<>>
    /\ counter = 0
    /\ OneAccount
    /\ user_dir_exists = (IsSome(saved) \/ DOMAIN files # {})

\* The program is started again: user_dir is as the first run left it, and
\* data_file is the first run's DataFile until Begin has loaded tweets.json.
\* batch.log keeps what the first run returned.
Again ==
    /\ pc = "returned"
    /\ ~batch.again
    /\ batch' = [batch EXCEPT !.again = TRUE, !.log = Logged]
    /\ pc' = "start"
    /\ result' = None
    /\ since_id' = None
    /\ new_tweets' = <<>>
    /\ files0' = files
    /\ downloads' = <<>>
    /\ next_task' = 1
    /\ in_progress' = {}
    /\ task' = <<>>
    /\ delivered' = <<>>
    /\ counter' = 0
    /\ UNCHANGED <<args, twitter, data_file, trail, returned, saved, files, world,
                   user_dir_exists>>

ResumeNext ==
    \/ Next
    \/ Again

SpecResume == ResumeInit /\ [][ResumeNext]_vars

----------------------------------------------------------------------------
(* Claims about the download engine and its consumer (Spec, FairSpec).     *)

Tasks == DOMAIN task

\* the downloads that have been started and have not finished
InFlight == {t \in Tasks : task[t].pc \in {"pushed", "sent", "body"}}

\* the position in `delivered` of download t's outcome, 0 while it has none
RECURSIVE DeliveryOf(_, _)
DeliveryOf(t, i) ==
    IF i > Len(delivered) THEN 0
    ELSE IF delivered[i].of = t THEN i ELSE DeliveryOf(t, i + 1)

HasOutcome(t) == DeliveryOf(t, 1) # 0
OutcomeOf(t) == delivered[DeliveryOf(t, 1)].out.result

\* the consumer is through with the i-th pair the stream yielded
Consumed(i) == i < Len(delivered) \/ (i = Len(delivered) /\ pc # "handling")
OutcomeConsumed(t) == HasOutcome(t) /\ Consumed(DeliveryOf(t, 1))

\* the file at a name: None when there is no such file
FileAt(fs, name) == IF name \in DOMAIN fs THEN Some(fs[name]) ELSE None

DestName(t) == downloads[t].destination.name
ExistedBefore(t) == DestName(t) \in DOMAIN files0

\* the file_name of the media download t was enumerated from
FileNameOf(t) ==
    data_file.tweets[downloads[t].context.tweet_index]
             .media[downloads[t].context.media_index].file_name

IsErr(r, tag) == r.kind = "Err" /\ r.error.tag = tag
IsNotFound(r) == IsErr(r, "BadResponse") /\ r.error.code = 404

\* download_account has returned after the stream had ended
StreamEnded ==
    /\ pc = "returned"
    /\ \/ Unwrap(result).kind = "Ok"
       \/ Unwrap(result) = Err(Anyhow("Error saving data file"))

\* C4: bounded concurrency.  At no instant are more than args.concurrency
\* downloads in flight (pulled from the stream and not yet finished).
C4_BoundedConcurrency ==
    /\ Cardinality(InFlight) <= args.concurrency
    /\ InFlight = in_progress

\* C4 witness: the limit is reached while downloads are still waiting
C4_Witness ==
    /\ pc = "polling"
    /\ Cardinality(InFlight) = args.concurrency
    /\ next_task <= Len(downloads)
    /\ \E t \in InFlight : task[t].pc = "body"

DeliveredOnce ==
    \A i, j \in 1..Len(delivered) : i # j => delivered[i].of # delivered[j].of

\* every yielded pair holds the context of the download whose outcome it is
DeliveredPaired ==
    \A i \in 1..Len(delivered) :
        LET o == delivered[i].out
            tsk == downloads[delivered[i].of]
        IN  /\ o.ctx = tsk.context
            /\ Join(UserDir, o.ctx.filename) = tsk.destination
            /\ o.result.kind = "Ok" => o.result.value.saved_at = tsk.destination
            /\ IsErr(o.result, "DestinationExists") => o.result.error.path = tsk.destination
            /\ IsErr(o.result, "BadResponse") => o.result.error.url = tsk.url

AllDelivered ==
    /\ Len(delivered) = Len(downloads)
    /\ {delivered[i].of : i \in 1..Len(delivered)} = 1..Len(downloads)

\* C5: exactly-once delivery.  With every transfer going on to its end and the
\* consumer going on consuming (FairSpec), download_account returns; no outcome
\* is ever yielded twice, each comes with the context of its download, and once
\* the stream has ended every download has yielded exactly one outcome.
C5_ExactlyOnceDelivery ==
    /\ [](DeliveredOnce /\ DeliveredPaired)
    /\ [](StreamEnded => AllDelivered)
    /\ <>(pc = "returned")

\* C5 witness: three downloads run two at a time, their outcomes are yielded in
\* another order than they were submitted in, and the stream has ended
C5_Witness ==
    /\ StreamEnded
    /\ Len(downloads) = 3
    /\ args.concurrency = 2
    /\ AllDelivered
    /\ delivered[1].of # 1

\* C6: atomicity.  A download that has not succeeded (failed at any point, or
\* still under way, or dropped) leaves the file at its destination exactly as
\* it was before the downloads started: absent if it was absent.
C6_Atomicity ==
    \A t \in Tasks :
        ~(HasOutcome(t) /\ OutcomeOf(t).kind = "Ok")
            => FileAt(files, DestName(t)) = FileAt(files0, DestName(t))

\* C6 witness: a transfer has failed in the middle of the body, after a chunk
\* was written to its scratch file, and there is no file at its destination
C6_Witness ==
    \E t \in Tasks :
        /\ HasOutcome(t)
        /\ IsErr(OutcomeOf(t), "RequestError")
        /\ task[t].written >= 1
        /\ FileAt(files, DestName(t)) = None

\* C7: 404 isolation.  A 404 outcome never makes download_account return; it
\* binds nothing; and every other outcome the consumer is through with is
\* applied: a downloaded or adopted file is bound, and bound in tweets.json
\* once download_account has returned Ok.
C7_NotFoundIsolated ==
    (\E i \in 1..Len(delivered) : IsNotFound(delivered[i].out.result)) =>
        /\ pc = "returned" /\ Unwrap(result).kind = "Err" => ~IsNotFound(Unwrap(result))
        /\ \A t \in Tasks :
            /\ HasOutcome(t) /\ IsNotFound(OutcomeOf(t)) => IsNone(FileNameOf(t))
            /\ /\ OutcomeConsumed(t)
               /\ Classify(OutcomeOf(t), args.file_exists_policy) \in {"downloaded", "adopted"}
               => FileNameOf(t) = Some(downloads[t].context.filename)
        /\ StreamEnded => AllDelivered
        /\ pc = "returned" /\ Unwrap(result).kind = "Ok" => saved = Some(ToJson(data_file))

\* C7 witness: the first of three outcomes was a 404, the two later ones were
\* downloads, both are bound and saved, and download_account has returned Ok
C7_Witness ==
    /\ pc = "returned"
    /\ Unwrap(result).kind = "Ok"
    /\ Len(delivered) = 3
    /\ IsNotFound(delivered[1].out.result)
    /\ delivered[2].out.result.kind = "Ok"
    /\ delivered[3].out.result.kind = "Ok"
    /\ FileNameOf(delivered[2].of) = Some(downloads[delivered[2].of].context.filename)
    /\ FileNameOf(delivered[3].of) = Some(downloads[delivered[3].of].context.filename)
    /\ saved = Some(ToJson(data_file))

\* C8 (as claimed): collision policy Adopt.  When the destination exists, the
\* outcome is DestinationExists, the consumer binds the file name, the file is
\* left as it was, and no HTTP request is made for the download.
C8_AdoptWithoutTransfer ==
    \A t \in Tasks :
        args.file_exists_policy = "Adopt" /\ ExistedBefore(t) =>
            /\ task[t].requests = 0
            /\ FileAt(files, DestName(t)) = FileAt(files0, DestName(t))
            /\ HasOutcome(t) => IsErr(OutcomeOf(t), "DestinationExists")
            /\ OutcomeConsumed(t) => FileNameOf(t) = Some(downloads[t].context.filename)

\* C9 (as claimed): collision policy Warn.  When the destination exists, the
\* outcome is DestinationExists(path), the consumer goes on with the remaining
\* outcomes, the file stays as it was and the media's file_name stays None.
C9_WarnSkipsExisting ==
    \A t \in Tasks :
        args.file_exists_policy = "Warn" /\ ExistedBefore(t) =>
            /\ HasOutcome(t) => OutcomeOf(t) = Err(DestinationExists(downloads[t].destination))
            /\ OutcomeConsumed(t) => pc # "returned" \/ StreamEnded
            /\ FileAt(files, DestName(t)) = FileAt(files0, DestName(t))
            /\ IsNone(FileNameOf(t))

\* C10: collision policy Overwrite.  A download whose destination exists never
\* ends in DestinationExists; when it succeeds, the file at the destination is
\* the download's scratch file, holding every chunk handed to file.write, in
\* place of the old content, and the consumer binds the file name.
C10_OverwriteReplaces ==
    \A t \in Tasks :
        args.file_exists_policy = "Overwrite" /\ ExistedBefore(t) /\ HasOutcome(t) =>
            /\ downloads[t].overwrite
            /\ ~IsErr(OutcomeOf(t), "DestinationExists")
            /\ OutcomeOf(t).kind = "Ok" =>
                /\ FileAt(files, DestName(t)) # FileAt(files0, DestName(t))
                /\ files[DestName(t)].by = t
                /\ files[DestName(t)].chunks = BodyChunks
                /\ OutcomeOf(t).value.written = BodyChunks
                /\ OutcomeConsumed(t) => FileNameOf(t) = Some(downloads[t].context.filename)

\* C10 witness: under Overwrite a download to an existing file has succeeded,
\* every write was whole, the file holds the new content and the media is bound
C10_Witness ==
    \E t \in Tasks :
        /\ args.file_exists_policy = "Overwrite"
        /\ ExistedBefore(t)
        /\ OutcomeConsumed(t)
        /\ OutcomeOf(t).kind = "Ok"
        /\ files[DestName(t)] = [by |-> t, chunks |-> BodyChunks, intact |-> TRUE]
        /\ files0[DestName(t)] = OldContent
        /\ FileNameOf(t) = Some(downloads[t].context.filename)

----------------------------------------------------------------------------
(* Claims about persistence, the cursor and the loop over the accounts.    *)

\* the DataFile a complete tweets.json holds
OnDisk(file) == FromJson(Unwrap(file)).value
IsComplete(file) == IsSome(file) /\ FromJson(Unwrap(file)).kind = "Ok"

\* the greatest tweet id of a Vec<Tweet>: None when it is empty
MaxIdOf(tweets) ==
    IF Len(tweets) = 0 THEN None
    ELSE Some(CHOOSE m \in {tweets[i].id : i \in 1..Len(tweets)} :
                \A i \in 1..Len(tweets) : tweets[i].id <= m)

\* download_account has returned the error of a download (line 181)
Aborted ==
    /\ pc = "returned"
    /\ Len(delivered) > 0
    /\ Classify(delivered[Len(delivered)].out.result, args.file_exists_policy) = "fatal"
    /\ Unwrap(result) = Err(delivered[Len(delivered)].out.result.error)

\* C11 (as claimed): cancellation keeps progress.  When a download outcome is
\* fatal and download_account returns its error, tweets.json is a complete
\* document that holds every file_name bound in the DataFile before the abort.
C11_CancellationKeepsProgress ==
    Aborted =>
        /\ IsComplete(saved)
        /\ Bindings(data_file) \subseteq Bindings(OnDisk(saved))

\* C12 (as claimed): atomic save.  Whenever tweets.json changes, it holds the
\* complete new document; otherwise it holds what it held before; it never
\* holds a partial document.
C12_AtomicSave ==
    [][saved' = saved \/ saved' = Some(ToJson(data_file'))]_vars

MismatchError == Err(Anyhow("User id mismatch!"))
DirError == Err(Anyhow("Unable to create output directory"))

\* tweets.json of the account being synced is of another account id
Foreign ==
    /\ IsSome(twitter.user_id)
    /\ IsComplete(saved)
    /\ OnDisk(saved).user_id # Unwrap(twitter.user_id)

\* C13: integrity check on load.  When tweets.json holds another user id than
\* the account's, load fails with the mismatch error and download_account
\* returns it with nothing fetched, merged, saved or downloaded and tweets.json
\* as it was (unless user_dir could not be created, which is found before the
\* load); the mismatch error is returned in no other case; without a
\* tweets.json load returns None and the sync goes on with a new DataFile.
C13_IntegrityCheckOnLoad ==
    /\ Foreign /\ pc # "start" =>
        /\ pc \in {"returned", "done"}
        /\ Unwrap(result) \in {MismatchError, DirError}
        /\ data_file = DataFileNew(0)
        /\ new_tweets = <<>>
        /\ downloads = <<>>
        /\ task = <<>>
        /\ delivered = <<>>
        /\ files = files0
        /\ saved = world[Username].saved
    /\ pc \in {"returned", "done"} /\ Unwrap(result) = MismatchError => Foreign
    /\ IsNone(saved) /\ pc = "fetch" => data_file = DataFileNew(Unwrap(twitter.user_id))

\* C13 witness: the sync of the first account has returned the mismatch error,
\* and its tweets.json is the foreign file it was before
C13_Witness ==
    /\ pc = "returned"
    /\ batch.account = 1
    /\ Foreign
    /\ Unwrap(result) = MismatchError
    /\ saved = world[Username].saved

\* C14: cursor determination.  Right after the load, since_id is None if
\* --rescan was given or the loaded DataFile is of an older model version, and
\* otherwise the greatest tweet id of the loaded DataFile (None for a first run,
\* without tweets); the fetch returns the tweets newer than since_id.
C14_CursorDetermination ==
    /\ pc = "fetch" =>
        since_id = IF IsNone(saved) THEN None
                   ELSE IF args.rescan \/ OnDisk(saved).version < MODEL_VERSION THEN None
                   ELSE MaxIdOf(OnDisk(saved).tweets)
    /\ pc = "enumerate" =>
        LET Newer(t) == IsNone(since_id) \/ t.id > Unwrap(since_id)
        IN  new_tweets = SelectSeq(twitter.timeline, Newer)

\* C14 witness: without --rescan, a tweets.json of an older model version that
\* holds a tweet has been loaded, and since_id is None
C14_Witness ==
    /\ pc = "fetch"
    /\ ~args.rescan
    /\ IsComplete(saved)
    /\ OnDisk(saved).version < MODEL_VERSION
    /\ Len(data_file.tweets) > 0
    /\ since_id = None

\* C15: cursor correctness.  For every DataFile reached through new, load,
\* merge_tweets and the binding of file names, latest_tweet_id is the greatest
\* tweet id of the DataFile, and None exactly when it has no tweets.
C15_CursorCorrectness ==
    /\ LatestTweetId(data_file) = MaxIdOf(data_file.tweets)
    /\ IsNone(LatestTweetId(data_file)) <=> Len(data_file.tweets) = 0

\* C15 witness: a tweets.json whose tweets are not in ascending order has been
\* loaded, and latest_tweet_id is the greater id
C15_Witness ==
    /\ pc = "loaded"
    /\ Unwrap(result).loaded.kind = "Ok"
    /\ IsComplete(saved)
    /\ Len(OnDisk(saved).tweets) = 2
    /\ OnDisk(saved).tweets[1].id > OnDisk(saved).tweets[2].id
    /\ LatestTweetId(data_file) = Some(OnDisk(saved).tweets[1].id)

\* tweets with distinct ids in ascending order
IsValid(df) ==
    \A i, j \in 1..Len(df.tweets) : i < j => df.tweets[i].id < df.tweets[j].id

\* C16: round trip.  A load, with the DataFile's own user id, of the
\* tweets.json that save has written from a valid DataFile returns a DataFile
\* equal to it: user_id, version, the tweets in their order, their media and
\* the file names.
C16_RoundTrip ==
    /\ pc = "loaded"
    /\ trail # <<>>
    /\ IsValid(trail[1])
    /\ Unwrap(result).validate_user_id = trail[1].user_id
    => /\ Unwrap(result).loaded = Ok(Some(trail[1]))
       /\ data_file = trail[1]

\* C16 witness: a DataFile of two tweets, one of them with a bound media and
\* an unbound one, has been saved and loaded again
C16_Witness ==
    /\ pc = "loaded"
    /\ trail # <<>>
    /\ Len(trail[1].tweets) = 2
    /\ Bindings(trail[1]) # {}
    /\ \E i \in 1..2 : \E k \in 1..Len(trail[1].tweets[i].media) :
            IsNone(trail[1].tweets[i].media[k].file_name)
    /\ Unwrap(result).loaded = Ok(Some(trail[1]))

\* the accounts are synced in the order of the usernames, one at a time
LogInOrder ==
    /\ batch.account - 1 <= Len(batch.log)
    /\ Len(batch.log) <= batch.account
    /\ \A i \in 1..Len(batch.log) : batch.log[i].username = batch.usernames[i]

Ended == IsSome(batch.result)

\* the sync of one account leaves user_dir and remote side of the others alone
OthersUntouched == \A n \in DOMAIN world : n # Username => world'[n] = world[n]

\* C17: continue on error.  The accounts are synced one after another.
\* Without --continue-on-error the first failing sync ends `download` with its
\* error and no later account is synced; with it `download` never returns an
\* error, and it returns only when every account has been synced, a failed one
\* being passed over.  No sync changes the tweets.json or the files of another
\* account.
C17_ContinueOnError ==
    /\ [](/\ LogInOrder
          /\ Ended <=> pc = "done"
          /\ ~batch.continue_on_error =>
                \A i \in 1..Len(batch.log) :
                    batch.log[i].result.kind = "Err" =>
                        /\ i = Len(batch.log)
                        /\ batch.account = i
                        /\ batch.result = Some(Err(batch.log[i].result.error))
          /\ batch.continue_on_error /\ Ended => batch.result = Some(Ok(<<>>))
          /\ Ended /\ Unwrap(batch.result).kind = "Ok" =>
                /\ Len(batch.log) = Len(batch.usernames)
                /\ ~batch.continue_on_error =>
                        \A i \in 1..Len(batch.log) : batch.log[i].result.kind = "Ok")
    /\ [][OthersUntouched]_vars

\* C17 witness: with --continue-on-error the sync of the first account has
\* failed in the middle of its downloads, the second account has been synced
\* and has got its tweets.json, and `download` has returned Ok
C17_Witness ==
    /\ batch.continue_on_error
    /\ Ended
    /\ Len(batch.log) = 2
    /\ batch.log[1].result = Err(BadResponse(500, PathOf(1)))
    /\ batch.log[2].result.kind = "Ok"
    /\ batch.result = Some(Ok(<<>>))
    /\ IsComplete(world[Other.username].saved)
    /\ Len(OnDisk(world[Other.username].saved).tweets) = 2

\* C18 (as claimed): a user id mismatch on load is always fatal.  Whatever
\* --continue-on-error says, `download` ends with the mismatch error and no
\* later account is synced.
C18_IntegrityErrorAlwaysFatal ==
    \A i \in 1..Len(batch.log) :
        batch.log[i].result = MismatchError =>
            /\ batch.result = Some(MismatchError)
            /\ batch.account = i

\* the downloads enumerated from a position of the DataFile
TargetsOf(tweet_index, media_index) ==
    {t \in Tasks : /\ downloads[t].context.tweet_index = tweet_index
                   /\ downloads[t].context.media_index = media_index}

\* the consumer has bound the file name of download t
Applied(t) ==
    /\ OutcomeConsumed(t)
    /\ Classify(OutcomeOf(t), args.file_exists_policy) \in {"downloaded", "adopted"}

\* the file name built from the ids of a tweet and its media
OwnName(tweet, media) == CandidateFileName(tweet.id, media.id, Unwrap(media.url))

Enumerated == pc \in {"polling", "handling"} \/ Len(downloads) > 0

HasMedia(df, post_id, media_id) ==
    /\ HasTweet(df.tweets, post_id)
    /\ FindMedia(TweetById(df.tweets, post_id).media, media_id, 1) # 0
MediaById(df, post_id, media_id) ==
    LET tweet == TweetById(df.tweets, post_id)
    IN  tweet.media[FindMedia(tweet.media, media_id, 1)]

\* C20 (as claimed): binding lifecycle.  Over the runs of the program, for a
\* media that stays in its post, a file_name that is set stays as it is, a
\* file_name is set only to the name built from the post id and the media id,
\* and no media with a file_name is enumerated for download.
C20_BindingLifecycle ==
    [][/\ \A post_id \in PostIds : \A media_id \in MediaIds :
            HasMedia(data_file, post_id, media_id) /\ HasMedia(data_file', post_id, media_id) =>
                LET before == MediaById(data_file, post_id, media_id).file_name
                    after == MediaById(data_file', post_id, media_id).file_name
                IN  /\ IsSome(before) => after = before
                    /\ IsNone(before) /\ IsSome(after) =>
                        after = Some(CandidateFileName(post_id, media_id, PathOf(media_id)))
       /\ pc = "enumerate" /\ pc' = "polling" =>
            \A t \in 1..Len(downloads') :
                IsNone(data_file.tweets[downloads'[t].context.tweet_index]
                                .media[downloads'[t].context.media_index].file_name)]_vars

----------------------------------------------------------------------------
(* Claims about fatal outcomes, the end of the stream and the transfers.   *)

\* the outcomes that are neither success, nor DestinationExists under Warn or
\* Adopt, nor a 404
IsFatal(r) ==
    \/ IsErr(r, "RequestError")
    \/ IsErr(r, "FileError")
    \/ IsErr(r, "InvalidDestination")
    \/ IsErr(r, "BadResponse") /\ r.error.code # 404
    \/ IsErr(r, "DestinationExists") /\ args.file_exists_policy = "Overwrite"

\* C21: fatal download outcomes abort the account.  As soon as the consumer is
\* through with a fatal outcome, download_account has returned its error; the
\* outcome is the last the stream has yielded; it has bound nothing, and no
\* download without an outcome has a file name bound.
C21_FatalAborts ==
    \A i \in 1..Len(delivered) :
        IsFatal(delivered[i].out.result) /\ Consumed(i) =>
            /\ i = Len(delivered)
            /\ pc = "returned"
            /\ Unwrap(result) = Err(delivered[i].out.result.error)
            /\ IsNone(FileNameOf(delivered[i].of))
            /\ \A t \in Tasks : ~HasOutcome(t) => IsNone(FileNameOf(t))

\* C21 witness: after a download was bound, a second one answered with status
\* 500 while a third was in flight, and download_account has returned the error
C21_Witness ==
    /\ pc = "returned"
    /\ Len(delivered) = 2
    /\ delivered[1].out.result.kind = "Ok"
    /\ IsErr(delivered[2].out.result, "BadResponse")
    /\ delivered[2].out.result.error.code = 500
    /\ \E t \in Tasks : task[t].pc = "dropped"
    /\ Unwrap(result) = Err(delivered[2].out.result.error)

\* the scratch files that exist
Scratches == {t \in Tasks : IsSome(task[t].scratch)}

\* C22: early termination.  Once download_account has returned on a fatal
\* outcome, no download is in flight, the downloads that were not started are
\* still not started, no scratch file is left, and the destination of every
\* download that was in flight or not started is as it was before the run.
C22_EarlyTermination ==
    Aborted =>
        /\ in_progress = {}
        /\ InFlight = {}
        /\ Scratches = {}
        /\ \A t \in Tasks :
            /\ t >= next_task => task[t].pc = "queued" /\ task[t].requests = 0
            /\ task[t].pc \in {"queued", "dropped"} =>
                    FileAt(files, DestName(t)) = FileAt(files0, DestName(t))

\* C22 witness: the run was aborted while a second download had a chunk in its
\* scratch file and a third had not been started
C22_Witness ==
    /\ Aborted
    /\ \E t \in Tasks : task[t].pc = "dropped" /\ task[t].written >= 1
    /\ \E t \in Tasks : task[t].pc = "queued"

\* C23 (as claimed): local filesystem errors are fatal.  While the sync goes on
\* after the merge, and when it has returned Ok, no write of tweets.json has
\* failed: the file holds the DataFile; a FileError outcome makes the sync
\* return the error.
C23_FilesystemErrorsFatal ==
    /\ pc \in {"enumerate", "polling", "handling"} => saved = Some(ToJson(data_file))
    /\ pc = "returned" /\ Unwrap(result).kind = "Ok" => saved = Some(ToJson(data_file))
    /\ \A i \in 1..Len(delivered) :
        IsErr(delivered[i].out.result, "FileError") /\ Consumed(i) =>
            pc = "returned" /\ Unwrap(result).kind = "Err"

\* C24 (as claimed): complete content before rename.  After a successful
\* outcome the file at the destination holds every chunk of the body, each
\* written whole, and the reported count is the size of the file.
C24_CompleteContent ==
    \A t \in Tasks :
        HasOutcome(t) /\ OutcomeOf(t).kind = "Ok" =>
            /\ files[DestName(t)].by = t
            /\ files[DestName(t)].chunks = BodyChunks
            /\ files[DestName(t)].intact
            /\ OutcomeOf(t).value.written = BodyChunks

\* the tweet ids of a Vec<Tweet>
IdsOf(tweets) == {tweets[i].id : i \in 1..Len(tweets)}

\* C30 (as claimed): metadata is persisted before downloads.  No download is
\* started before the merged DataFile is in tweets.json, and from then on, at
\* every point of the download phase (where a crash or an abort may happen),
\* tweets.json is a complete document that holds every tweet of the DataFile.
C30_MetadataBeforeDownloads ==
    pc \in {"polling", "handling"} \/ Len(delivered) > 0 =>
        /\ IsComplete(saved)
        /\ IdsOf(data_file.tweets) \subseteq IdsOf(OnDisk(saved).tweets)

----------------------------------------------------------------------------
(* SpecEnum: the merge and the enumeration of the download candidates      *)
(* (download/mod.rs lines 125-148) for snapshots whose media are of every   *)
(* kind, with and without a URL, a file name and a file extension, and for  *)
(* every choice of the requested media types.                              *)

\* post ids and media ids whose decimal digits run into one another
EnumPostIds == {1, 11}
EnumMediaIds == {1, 11}

\* URL paths: two dots before the extension, or no dot at all
PhotoPath == <<"/", "a", ".", "b", ".", "j", "p", "g">>
BarePath == <<"/", "g">>

\* the media a tweet of the snapshot can hold under a media id: a photo not
\* yet downloaded, a photo an earlier run has bound, a video for which the API
\* gave no URL, a gif whose URL path has no extension
EnumMedia(tweet_id, media_id) ==
    {MediaNew(media_id, "photo", Some(PhotoPath)),
     [MediaNew(media_id, "photo", Some(PhotoPath)) EXCEPT
        !.file_name = Some(CandidateFileName(tweet_id, media_id, PhotoPath))],
     MediaNew(media_id, "video", None),
     MediaNew(media_id, "gif", Some(BarePath))}

\* the media lists of a stored tweet, media ids unique within the tweet
EnumMediaLists(tweet_id) ==
    {<<>>}
    \cup {<<m>> : m \in UNION {EnumMedia(tweet_id, k) : k \in EnumMediaIds}}
    \cup {<<m, n>> : m \in EnumMedia(tweet_id, 1), n \in EnumMedia(tweet_id, 11)}

\* the snapshots Begin hands on: tweets in strictly ascending id order
EnumSnapshots ==
    {[user_id |-> Account.user_id, tweets |-> ts, version |-> MODEL_VERSION] :
        ts \in {<<>>}
            \cup UNION {{<<TweetOf(id, "old", l)>> : l \in EnumMediaLists(id)} :
                            id \in EnumPostIds}
            \cup {<<TweetOf(1, "old", l), TweetOf(11, "old", m)>> :
                    l \in EnumMediaLists(1), m \in EnumMediaLists(11)}}

\* what get_all_tweets_for_user returns, newest tweet first
EnumTimelines ==
    {<<>>,
     <<TweetOf(11, "new", <<MediaNew(1, "photo", Some(PhotoPath)),
                            MediaNew(11, "video", None)>>)>>,
     <<TweetOf(11, "new", <<MediaNew(11, "gif", Some(BarePath))>>),
       TweetOf(1, "new", <<MediaNew(11, "photo", Some(PhotoPath)),
                           MediaNew(1, "gif", Some(BarePath))>>)>>}

\* download_account has loaded the DataFile and is about to fetch the tweets
EnumInit ==
    /\ args \in [file_exists_policy : {"Warn"}, concurrency : {1}, rescan : {TRUE},
                 media_types : SUBSET AllMediaTypes]
    /\ twitter \in [user_id : {Some(Account.user_id)}, timeline : EnumTimelines]
    /\ data_file \in EnumSnapshots
    /\ saved = Some(ToJson(data_file))
    /\ files = [n \in BoundNames(saved) |-> OldContent]
    /\ files0 = files
    /\ since_id = SinceId(args.rescan, data_file)
    /\ new_tweets = <<>>
    /\ NoMerge
    /\ pc = "fetch"
    /\ result = None
    /\ downloads = <<>>
    /\ next_task = 1
    /\ in_progress = {}
    /\ task = <<>>
    /\ delivered = <<>>
    /\ counter = 0
    /\ OneAccount
    /\ user_dir_exists = TRUE

EnumNext ==
    \/ FetchAndMerge
    \/ Enumerate

SpecEnum == EnumInit /\ [][EnumNext]_vars

----------------------------------------------------------------------------
(* Claims about the enumeration of the candidates (checked under SpecEnum). *)

\* the value of a sequence of decimal digits
RECURSIVE ValueOf(_)
ValueOf(s) ==
    LET DigitOf == ("0" :> 0) @@ ("1" :> 1) @@ ("2" :> 2) @@ ("3" :> 3) @@ ("4" :> 4) @@
                   ("5" :> 5) @@ ("6" :> 6) @@ ("7" :> 7) @@ ("8" :> 8) @@ ("9" :> 9)
    IN  IF Len(s) = 0 THEN 0
        ELSE 10 * ValueOf(SubSeq(s, 1, Len(s) - 1)) + DigitOf[s[Len(s)]]

\* s is the decimal numeral of n, without a leading zero
IsDecimalOf(s, n) ==
    /\ Len(s) >= 1
    /\ \A i \in 1..Len(s) : s[i] \in {"0", "1", "2", "3", "4", "5", "6", "7", "8", "9"}
    /\ Len(s) > 1 => s[1] # "0"
    /\ ValueOf(s) = n

\* ext is what follows the last '.' of the path, nothing when the path has none
IsExtOf(ext, path) ==
    IF \A k \in 1..Len(path) : path[k] # "."
    THEN ext = <<>>
    ELSE \E k \in 1..Len(path) :
            /\ path[k] = "."
            /\ \A m \in (k + 1)..Len(path) : path[m] # "."
            /\ ext = SubSeq(path, k + 1, Len(path))

\* name is "<post_id>_<media_id>.<ext>"
NameIs(name, post_id, media_id, path) ==
    \E i, j \in 1..Len(name) :
        /\ i < j
        /\ name[i] = "_"
        /\ name[j] = "."
        /\ IsDecimalOf(SubSeq(name, 1, i - 1), post_id)
        /\ IsDecimalOf(SubSeq(name, i + 1, j - 1), media_id)
        /\ IsExtOf(SubSeq(name, j + 1, Len(name)), path)

\* the positions (tweet_index, media_index) of the DataFile
Positions ==
    UNION {{<<ti, mi>> : mi \in 1..Len(data_file.tweets[ti].media)} :
            ti \in 1..Len(data_file.tweets)}
MediaAt(pos) == data_file.tweets[pos[1]].media[pos[2]]

\* the media that are to be downloaded
Wanted ==
    {pos \in Positions : /\ MediaAt(pos).type \in args.media_types
                         /\ MediaAt(pos).file_name = None
                         /\ MediaAt(pos).url # None}

PositionOf(t) == <<downloads[t].context.tweet_index, downloads[t].context.media_index>>

\* C25: candidate enumeration.  When the downloads are built there is exactly
\* one for every media of the merged DataFile (tweets that were stored before
\* the run as well as fetched ones) whose type is among the requested types,
\* whose file_name is None and whose url is Some, and none for any other
\* media; a media without url gives no download and no error; the file name
\* of a download is "<tweet id>_<media id>.<ext>", the ids in decimal and ext
\* what follows the last '.' of the URL path, and its destination is that name
\* in user_dir.
C25_CandidateEnumeration ==
    pc = "polling" =>
        /\ {PositionOf(t) : t \in Tasks} = Wanted
        /\ Len(downloads) = Cardinality(Wanted)
        /\ result = None
        /\ \A t \in Tasks :
            LET tweet == data_file.tweets[PositionOf(t)[1]]
                media == MediaAt(PositionOf(t))
            IN  /\ downloads[t].url = Unwrap(media.url)
                /\ NameIs(downloads[t].context.filename, tweet.id, media.id,
                          Unwrap(media.url))
                /\ downloads[t].destination =
                        Join(UserDir, downloads[t].context.filename)

\* C25 witness: only photos are requested; the downloads are enumerated from
\* a DataFile with a stored tweet that was not fetched again and has a bound
\* photo and a photo to download, and a fetched tweet with a photo and a video
\* without URL; exactly the photos without file name are downloaded, under
\* the names "1_11.jpg" and "11_1.jpg".
C25_Witness ==
    /\ pc = "polling"
    /\ args.media_types = {"photo"}
    /\ Len(data_file.tweets) = 2
    /\ Len(new_tweets) = 1 /\ new_tweets[1].id = 11
    /\ \E pos \in Positions : pos[1] = 1 /\ IsSome(MediaAt(pos).file_name)
    /\ \E pos \in Positions : MediaAt(pos).type = "video" /\ MediaAt(pos).url = None
    /\ Len(downloads) = 2
    /\ downloads[1].context.filename = <<"1", "_", "1", "1", ".", "j", "p", "g">>
    /\ downloads[2].context.filename = <<"1", "1", "_", "1", ".", "j", "p", "g">>

\* media ids are unique within every tweet of the DataFile
UniqueMediaIds ==
    \A ti \in 1..Len(data_file.tweets) :
        \A i, j \in 1..Len(data_file.tweets[ti].media) :
            i # j => data_file.tweets[ti].media[i].id # data_file.tweets[ti].media[j].id

\* C26: unique destinations.  When media ids are unique within every tweet
\* of the merged DataFile, no two of the downloads enumerated from it have the
\* same destination path.
C26_UniqueDestinations ==
    pc = "polling" /\ UniqueMediaIds =>
        \A t, u \in Tasks : t # u => downloads[t].destination # downloads[u].destination

\* C26 witness: media 11 of tweet 1 and media 1 of tweet 11, both with the same
\* URL path, are downloaded in the same run, to different destinations.
C26_Witness ==
    /\ pc = "polling"
    /\ UniqueMediaIds
    /\ \E t, u \in Tasks :
        /\ data_file.tweets[PositionOf(t)[1]].id = 1 /\ MediaAt(PositionOf(t)).id = 11
        /\ data_file.tweets[PositionOf(u)[1]].id = 11 /\ MediaAt(PositionOf(u)).id = 1
        /\ downloads[t].url = downloads[u].url
        /\ downloads[t].destination # downloads[u].destination

----------------------------------------------------------------------------
(* Claims about the order of the tweets and the version of a DataFile      *)
(* (checked under SpecStore) and about what merge_tweets replaces and      *)
(* keeps (checked under SpecMerge).                                        *)

\* C27: snapshot ordering.  Whatever sequence of new, load, merge_tweets,
\* binding and save has run, the tweets of the DataFile are in strictly
\* ascending id order (no id twice), and the tweets.json that save has written
\* holds the tweets of the DataFile it was written from, in that order.
C27_SnapshotOrdering ==
    /\ IsValid(data_file)
    /\ trail # <<>> =>
        /\ IsComplete(saved)
        /\ OnDisk(saved).tweets = trail[1].tweets
        /\ IsValid(OnDisk(saved))

\* C27 witness: two tweets that were fetched newest first have been merged, a
\* media of the newer one has been bound, and the DataFile has been saved with
\* the tweets in ascending order.
C27_Witness ==
    /\ pc = "saved"
    /\ trail = <<data_file>>
    /\ Len(new_tweets) = 2 /\ new_tweets[1].id > new_tweets[2].id
    /\ Len(data_file.tweets) = 2
    /\ data_file.tweets[1].id < data_file.tweets[2].id
    /\ \E k \in 1..Len(data_file.tweets[2].media) :
        IsSome(data_file.tweets[2].media[k].file_name)
    /\ OnDisk(saved).tweets[1].id < OnDisk(saved).tweets[2].id

\* a media without regard to its file name
Unbound(media) == [media EXCEPT !.file_name = None]

\* what one call of merge_tweets with new_tweets makes of the tweets `before`
Replaced(before, after) ==
    /\ IdsOf(after) = IdsOf(before) \cup IdsOf(new_tweets)
    /\ Len(after) = Cardinality(IdsOf(after))
    /\ \A i \in LastOccurrences :
        LET x == new_tweets[i]
            m == TweetById(after, x.id)
        IN  /\ m.text = x.text
            /\ m.timestamp = x.timestamp
            /\ Len(m.media) = Len(x.media)
            /\ \A k \in 1..Len(x.media) : Unbound(m.media[k]) = Unbound(x.media[k])
    /\ \A j \in 1..Len(before) :
        before[j].id \notin IdsOf(new_tweets) => TweetById(after, before[j].id) = before[j]

\* C28: merge replaces and retains.  After every call of merge_tweets the
\* ids of the tweets are those stored before together with the incoming ones,
\* each once; a tweet whose id is incoming has the text, the timestamp and the
\* media list of the last incoming tweet of that id, file names apart; a
\* stored tweet whose id is not incoming is as it was; no tweet is removed.
C28_MergeReplacesAndRetains ==
    \A n \in 1..(Len(trail) - 1) : Replaced(trail[n].tweets, trail[n + 1].tweets)

\* C28 witness: tweet 1 is stored with a bound media and comes in twice, with
\* different media lists, while the stored tweet 2 does not come in: the
\* merged tweet 1 has the text and the media list of the second incoming one,
\* tweet 2 is as it was.
C28_Witness ==
    /\ Merged
    /\ Len(new_tweets) = 2
    /\ new_tweets[1].id = 1 /\ new_tweets[2].id = 1
    /\ new_tweets[1].media # new_tweets[2].media
    /\ Len(trail[1].tweets) = 2
    /\ \E k \in 1..Len(trail[1].tweets[1].media) : IsSome(trail[1].tweets[1].media[k].file_name)
    /\ trail[1].tweets[1].text # new_tweets[2].text
    /\ trail[2].tweets[1].text = new_tweets[2].text
    /\ Len(trail[2].tweets[1].media) = Len(new_tweets[2].media)
    /\ trail[2].tweets[2] = trail[1].tweets[2]

\* C29: schema version after merge.  merge_tweets leaves the DataFile with
\* version MODEL_VERSION, whatever comes in (nothing included) and whatever
\* the version was; the binding of a file name and save leave the version as
\* it is, save writes it as it is, and load returns the version that is in
\* tweets.json (MODEL_VERSION for the DataFile made when there is no file).
C29_VersionAfterMerge ==
    [][/\ pc' = "merged" => data_file'.version = MODEL_VERSION
       /\ pc' = "bound" => data_file'.version = data_file.version
       /\ pc' = "saved" =>
            /\ data_file'.version = data_file.version
            /\ trail' = <<data_file>> => OnDisk(saved').version = data_file.version
       /\ pc' = "loaded" =>
            LET loaded == Unwrap(result').loaded
            IN  data_file'.version =
                    IF loaded.kind = "Err" THEN data_file.version
                    ELSE IF IsSome(loaded.value) THEN OnDisk(saved).version
                    ELSE MODEL_VERSION
      ]_vars

\* C29 witness: the tweets.json of an older model version has been loaded and
\* nothing has come in; after merge_tweets the DataFile has MODEL_VERSION.
C29_Witness ==
    /\ pc = "merged"
    /\ new_tweets = <<>>
    /\ IsComplete(saved)
    /\ OnDisk(saved).version < MODEL_VERSION
    /\ OnDisk(saved).user_id = data_file.user_id
    /\ Len(data_file.tweets) = 2
    /\ Len(OnDisk(saved).tweets) = 2
    /\ data_file.version = MODEL_VERSION

----------------------------------------------------------------------------
(* Claims about a later run, the fetch, the indices of the downloads, the  *)
(* files behind a binding and the scratch files.                           *)

\* the (tweet id, media id) of the media that are still to be downloaded
Unfinished(df) ==
    UNION {{<<df.tweets[i].id, df.tweets[i].media[k].id>> :
                k \in {k \in 1..Len(df.tweets[i].media) :
                            /\ df.tweets[i].media[k].type \in args.media_types
                            /\ IsNone(df.tweets[i].media[k].file_name)
                            /\ IsSome(df.tweets[i].media[k].url)}} :
            i \in 1..Len(df.tweets)}

\* the media the downloads were enumerated from
Enqueued(df, tasks) ==
    {<<df.tweets[tasks[t].context.tweet_index].id,
       df.tweets[tasks[t].context.tweet_index].media[tasks[t].context.media_index].id>> :
        t \in 1..Len(tasks)}

\* the program runs again after a run that had come to its downloads: it
\* returned Ok, or the error of a download, or the error of the final save
AfterDownloads ==
    /\ batch.again
    /\ Len(batch.log) = 1
    /\ LET r == batch.log[1].result
       IN  \/ r.kind = "Ok"
           \/ r = Err(Anyhow("Error saving data file"))
           \/ r.kind = "Err" /\ r.error.tag \in {"RequestError", "FileError", "BadResponse",
                                                 "InvalidDestination", "DestinationExists"}

\* C31 (as claimed): resumption of unfinished downloads.  In a run after one
\* that had come to its downloads, every media with a URL and a requested type
\* that the earlier run has left without file name is a download again: the
\* later run loads it from tweets.json (it stops before the fetch only when
\* user_dir cannot be created), keeps it through the merge whatever the cursor
\* and the fetched tweets are, and enumerates it.
C31_Resumption ==
    [][AfterDownloads =>
        /\ pc = "start" /\ pc' = "returned" => result' = Some(DirError)
        /\ pc = "start" /\ pc' = "fetch" => Unfinished(data_file) \subseteq Unfinished(data_file')
        /\ pc = "fetch" /\ pc' = "enumerate" =>
                Unfinished(data_file) \subseteq Unfinished(data_file')
        /\ pc = "enumerate" /\ pc' = "polling" =>
                Unfinished(data_file) \subseteq Enqueued(data_file, downloads')
      ]_vars

----------------------------------------------------------------------------
(* SpecFetch: get_all_tweets_for_user page by page (API v2: until a page   *)
(* comes without next_token; API v1.1: until a page comes empty), then the *)
(* merge and the save of download/mod.rs lines 126-128.                    *)

\* the timeline of the account, newest tweet first
FetchTimelines ==
    Timelines \cup {<<>>,
                    <<FetchedTweet(3, <<>>), FetchedTweet(2, <<1>>), FetchedTweet(1, <<1, 2>>)>>}

\* tweets.json before the run: none, or the file of an earlier run of this or
\* of an older model version
FetchFiles ==
    {None} \cup
    {Some(ToJson([user_id |-> Account.user_id,
                  tweets |-> <<TweetOf(1, "old", <<BoundMedia(1, 1), FetchedMedia(2)>>)>>,
                  version |-> v])) : v \in {MODEL_VERSION - 1, MODEL_VERSION}}

\* What the API serves for one request: the next per_page tweets after the
\* `cursor` tweets already served, and the token of the page after it if any
GetPage(tweets, cursor, per_page) ==
    LET last == IF cursor + per_page < Len(tweets) THEN cursor + per_page ELSE Len(tweets)
    IN  [page |-> SubSeq(tweets, cursor + 1, last),
         next |-> IF last < Len(tweets) THEN Some(last) ELSE None]

\* A mutant of LastPage: the first page is taken for the last
LastPageAlways(api, page, next) == TRUE

\* the loop of get_all_tweets_for_user breaks: v2.rs line 191, v1.rs line 44
LastPage(api, page, next) ==
    IF api = "v2" THEN IsNone(next) ELSE Len(page) = 0

FetchError == Err(Anyhow("Unable to fetch tweets"))
ConvertError == Err(Anyhow("Unable to convert tweets"))

\* download_account has loaded the DataFile and calls get_all_tweets_for_user
FetchInit ==
    /\ args \in [file_exists_policy : {"Warn"}, concurrency : {1}, rescan : BOOLEAN,
                 media_types : {AllMediaTypes}]
    /\ twitter \in [user_id : {Some(Account.user_id)}, timeline : FetchTimelines,
                    api : {"v1", "v2"}, per_page : {1, 2}, cursor : {0}, results : {<<>>}]
    /\ saved \in FetchFiles
    /\ data_file = IF IsSome(saved) THEN Unwrap(Load(saved, Account.user_id).value)
                   ELSE DataFileNew(Account.user_id)
    /\ since_id = SinceId(args.rescan, data_file)
    /\ files = [n \in BoundNames(saved) |-> OldContent]
    /\ files0 = files
    /\ new_tweets = <<>>
    /\ NoMerge
    /\ pc = "page"
    /\ result = None
    /\ downloads = <<>>
    /\ next_task = 1
    /\ in_progress = {}
    /\ task = <<>>
    /\ delivered = <<>>
    /\ counter = 0
    /\ OneAccount
    /\ user_dir_exists = TRUE

\* One turn of the loop of get_all_tweets_for_user.  API v2 converts the
\* tweets of every page as it comes (convert_tweets in get_tweets_for_user),
\* API v1.1 converts all of them after the last page (Tweet::try_from).  When
\* the loop breaks the Vec is returned, merged and saved.
FetchPage ==
    /\ pc = "page"
    /\ UNCHANGED <<args, trail, returned, since_id, engine, batch, world, user_dir_exists>>
    /\ LET got == GetPage(TweetsSince(twitter.timeline, since_id), twitter.cursor,
                          twitter.per_page)
           results == twitter.results \o got.page
           failed(e) == Return(e) /\ UNCHANGED <<twitter, data_file, new_tweets, saved>>
       IN  \E outcome \in {"ok", "request_failed", "not_converted"} :
            IF outcome = "request_failed" THEN failed(FetchError)
            ELSE IF /\ outcome = "not_converted"
                    /\ IF twitter.api = "v2" THEN Len(got.page) > 0
                       ELSE LastPage(twitter.api, got.page, got.next) /\ Len(results) > 0
            THEN failed(ConvertError)
            ELSE IF LastPage(twitter.api, got.page, got.next)
            THEN /\ twitter' = [twitter EXCEPT !.results = results]
                 /\ MergeAndSave(results)
            ELSE /\ twitter' = [twitter EXCEPT !.results = results,
                                               !.cursor = @ + Len(got.page)]
                 /\ UNCHANGED <<data_file, new_tweets, saved, pc, result>>

FetchNext == FetchPage

SpecFetch == FetchInit /\ [][FetchNext]_vars

\* the DataFile that load returns from a tweets.json written by save
Stored(file) == IF IsSome(file) THEN OnDisk(file) ELSE DataFileNew(Account.user_id)

\* C32: fetch is all-or-nothing.  While get_all_tweets_for_user asks for page
\* after page, nothing is merged and tweets.json stays as it was loaded; when a
\* request or the conversion of a tweet fails, download_account returns the
\* error with nothing merged and tweets.json as it was, a version older than
\* MODEL_VERSION included, so that the next run asks for all tweets again;
\* tweets are merged only when the pages have come to their end, and then all
\* tweets newer than since_id are merged.
C32_FetchAllOrNothing ==
    /\ [](pc = "page" \/ (pc = "returned" /\ Unwrap(result) \in {FetchError, ConvertError})
            => /\ data_file = Stored(saved)
               /\ new_tweets = <<>>
               /\ data_file.version < MODEL_VERSION => SinceId(FALSE, Stored(saved)) = None)
    /\ [][pc = "page" =>
            /\ pc' = "page" \/ result' \in {Some(FetchError), Some(ConvertError)} =>
                    saved' = saved
            /\ new_tweets' # <<>> \/ saved' # saved \/ pc' = "enumerate" =>
                    /\ new_tweets' = TweetsSince(twitter.timeline, since_id)
                    /\ twitter'.results = new_tweets'
      ]_vars

\* C32 witness: two pages have been fetched when the request for the third
\* fails; download_account has returned the error, nothing is merged and
\* tweets.json is the file of the older model version it was before.
C32_Witness ==
    /\ pc = "returned"
    /\ Unwrap(result) = FetchError
    /\ Len(twitter.results) = 2
    /\ Len(twitter.timeline) = 3
    /\ IsComplete(saved)
    /\ OnDisk(saved).version < MODEL_VERSION
    /\ Len(OnDisk(saved).tweets) = 1
    /\ data_file = OnDisk(saved)
    /\ new_tweets = <<>>

\* the tweets and their media lists, file names apart
Skeleton(df) ==
    [i \in 1..Len(df.tweets) |->
        [df.tweets[i] EXCEPT !.media = [k \in 1..Len(@) |-> Unbound(@[k])]]]

\* the consumer is between the enumeration and the end of the stream
Streaming == pc \in {"polling", "handling"}

\* C33: positional indices stay valid.  From the enumeration of the downloads
\* to the consumption of the last outcome, the tweets of the DataFile, their
\* order, their media lists and everything in them but file_name stay as they
\* are; the DataFile changes only when the consumer handles an outcome, and
\* then only in the file_name at the outcome's (tweet_index, media_index),
\* which becomes the name built from the tweet id and media id at that
\* position; so every context refers, at all times, to the tweet and media
\* whose ids its filename was built from.
C33_IndicesStayValid ==
    /\ [](Streaming =>
            \A t \in Tasks :
                LET ctx == downloads[t].context
                IN  /\ ctx.tweet_index \in 1..Len(data_file.tweets)
                    /\ ctx.media_index \in 1..Len(data_file.tweets[ctx.tweet_index].media)
                    /\ ctx.filename =
                            OwnName(data_file.tweets[ctx.tweet_index],
                                    data_file.tweets[ctx.tweet_index].media[ctx.media_index]))
    /\ [][Streaming =>
            /\ Skeleton(data_file') = Skeleton(data_file)
            /\ data_file' # data_file =>
                /\ pc = "handling"
                /\ LET ctx == delivered[Len(delivered)].out.ctx
                       tweet == data_file.tweets[ctx.tweet_index]
                   IN  data_file' =
                        [data_file EXCEPT
                            !.tweets[ctx.tweet_index].media[ctx.media_index].file_name =
                                Some(OwnName(tweet, tweet.media[ctx.media_index]))]
      ]_vars

\* C33 witness: three downloads were enumerated, the outcome of the second
\* came first, and after the last outcome the second media of the first tweet
\* and the media of the second tweet have the file names built from their ids.
C33_Witness ==
    /\ pc = "polling"
    /\ Len(downloads) = 3
    /\ Len(delivered) = 3
    /\ delivered[1].of = 2
    /\ \A t \in Tasks : Applied(t) /\ FileNameOf(t) = Some(downloads[t].context.filename)
    /\ downloads[3].context.tweet_index = 2
    /\ FileNameOf(3) = Some(CandidateFileName(2, 1, PathOf(1)))

\* C34 (as claimed): a binding implies a captured file.  When the stream
\* yields a success or, under Adopt, a DestinationExists outcome, a complete
\* file (every chunk, each written whole) is in user_dir under the filename
\* of the outcome's context; the consumer sets a file_name only when it
\* handles such an outcome, never for a 404, a collision under Warn or a fatal
\* error; so every file_name set in the run names a complete file.
C34_BindingImpliesFile ==
    /\ [](Streaming \/ Len(delivered) > 0 =>
            \A t \in Tasks :
                /\ IsSome(FileNameOf(t)) => Applied(t)
                /\ Applied(t) =>
                    /\ DestName(t) = Unwrap(FileNameOf(t))
                    /\ IsSome(FileAt(files, DestName(t)))
                    /\ files[DestName(t)].intact)
    /\ [][Len(delivered') > Len(delivered) =>
            LET o == delivered'[Len(delivered')].out
            IN  Classify(o.result, args.file_exists_policy) \in {"downloaded", "adopted"} =>
                    /\ IsSome(FileAt(files', o.ctx.filename))
                    /\ files'[o.ctx.filename].intact
                    /\ o.result.kind = "Ok" => files'[o.ctx.filename].chunks = BodyChunks
      ]_vars

UserError == Err(Anyhow("Unable to find user"))

\* C35: an unresolvable username has no local effect.  When the username
\* cannot be resolved to a user id, the first step of download_account returns
\* the error of the resolution, and at every point of that sync user_dir has
\* not been created by it, tweets.json and the files are as they were, no
\* DataFile has been loaded, nothing has been fetched and no download exists.
C35_UnresolvableNoEffect ==
    /\ [](IsNone(twitter.user_id) =>
            /\ pc \in {"start", "returned", "done"}
            /\ pc # "start" => result = Some(UserError)
            /\ user_dir_exists = world[Username].dir
            /\ saved = world[Username].saved
            /\ files = world[Username].files
            /\ data_file = DataFileNew(0)
            /\ new_tweets = <<>>
            /\ since_id = None
            /\ downloads = <<>> /\ delivered = <<>>)
    /\ [][IsNone(twitter.user_id) /\ pc = "start" /\ pc' # "start" =>
            /\ pc' = "returned"
            /\ UNCHANGED <<user_dir_exists, saved, files, data_file, twitter>>
      ]_vars

\* C35 witness: the sync of an account that has no user_dir and whose
\* username cannot be resolved has returned the error, there is still no
\* user_dir and no tweets.json, and `download` goes on with the next account.
C35_Witness ==
    /\ pc = "returned"
    /\ IsNone(twitter.user_id)
    /\ result = Some(UserError)
    /\ ~user_dir_exists
    /\ saved = None
    /\ batch.account = 1 /\ batch.continue_on_error

\* C36: no scratch files are left behind.  A download that has an outcome of
\* whatever kind has no scratch file any more, and when download_account has
\* returned, after an abort as well, no download has one; a scratch file
\* goes away either by becoming the destination (the outcome is Ok) or by
\* being removed, the destination staying as it is.
C36_NoScratchLeft ==
    /\ [](/\ \A t \in Tasks : HasOutcome(t) \/ task[t].pc \in {"finished", "dropped"} =>
                    IsNone(task[t].scratch)
          /\ pc = "returned" => Scratches = {})
    /\ [][\A t \in Scratches :
            t \in DOMAIN task' /\ IsNone(task'[t].scratch) =>
                IF HasOutcome(t)' /\ OutcomeOf(t)'.kind = "Ok"
                THEN FileAt(files', DestName(t)) = task[t].scratch
                ELSE FileAt(files', DestName(t)) = FileAt(files, DestName(t))
      ]_vars

\* C36 witness: one download has succeeded, the next has failed with a bad
\* status while a third was receiving its body; download_account has
\* returned the error and none of the three has a scratch file.
C36_Witness ==
    /\ Aborted
    /\ Len(downloads) = 3
    /\ Len(delivered) = 2
    /\ delivered[1].out.result.kind = "Ok"
    /\ IsErr(delivered[2].out.result, "BadResponse")
    /\ \E t \in Tasks : task[t].pc = "dropped" /\ task[t].received > 0
    /\ Scratches = {}

====
